---------------------------- MODULE Spec2Model ----------------------------
(***************************************************************************)
(* Model of the DigitalOcean MCP worker: the request/response pipeline of  *)
(* src/unnamed/part_001 (worker entry point), src/src/types/env.ts         *)
(* (tenant credentials) and src/unnamed/part_000 (DigitalOceanClientImpl). *)
(*                                                                         *)
(* Conventions.  An optional JavaScript value (null / undefined / absent   *)
(* header) is a sequence of length at most one: << >> is absent, <<v>> is  *)
(* present.  Header values that the code parses character by character     *)
(* (Retry-After) are sequences of one-character strings.  A JavaScript     *)
(* number is <<n>>, NaN is << >>.                                          *)
(***************************************************************************)
EXTENDS Integers, Sequences, FiniteSets, TLC

\* Number of inbound worker requests that may be in flight together.
MaxReq == 2

Req == 1..MaxReq

None == << >>
Some(v) == <<v>>

\* JavaScript truthiness of an optional string: null, undefined and "" are falsy.
Truthy(o) == o # None /\ o[1] # ""

\* JavaScript truthiness of an optional character sequence.
TruthyChars(o) == o # None /\ o[1] # << >>

NaN == << >>

Digit == {"0", "1", "2", "3", "4", "5", "6", "7", "8", "9"}

DigitVal(d) ==
    CASE d = "0" -> 0 [] d = "1" -> 1 [] d = "2" -> 2 [] d = "3" -> 3
      [] d = "4" -> 4 [] d = "5" -> 5 [] d = "6" -> 6 [] d = "7" -> 7
      [] d = "8" -> 8 [] d = "9" -> 9

RECURSIVE SkipWhite(_)
SkipWhite(s) == IF s # << >> /\ Head(s) = " " THEN SkipWhite(Tail(s)) ELSE s

RECURSIVE ParseDigits(_, _)
\* The longest prefix of decimal digits of s, accumulated into acc.
ParseDigits(s, acc) ==
    IF s # << >> /\ Head(s) \in Digit
    THEN ParseDigits(Tail(s), 10 * acc + DigitVal(Head(s)))
    ELSE acc

\* parseInt(s, 10): leading white space is skipped, an optional sign is
\* read, then the longest run of digits; NaN when there is no digit.
parseInt(s) ==
    LET t == SkipWhite(s)
        neg == t # << >> /\ Head(t) = "-"
        u == IF t # << >> /\ Head(t) \in {"-", "+"} THEN Tail(t) ELSE t
    IN  IF u = << >> \/ Head(u) \notin Digit THEN NaN
        ELSE IF neg THEN <<0 - ParseDigits(u, 0)>> ELSE <<ParseDigits(u, 0)>>

-----------------------------------------------------------------------------
(* Inbound requests and tenant credentials (src/src/types/env.ts).         *)

API_BASE_URL == "https://api.digitalocean.com/v2"

\* Values of the X-DigitalOcean-Token header: absent, empty, two tenants.
TokenHeaders == {None, Some(""), Some("tokA"), Some("tokB")}

\* Values of the X-DigitalOcean-Base-URL header.
BaseUrlHeaders == {None, Some(""), Some("http://mock.test/v2")}

Routes ==
    {[method |-> "POST", pathname |-> "/mcp"],
     [method |-> "GET", pathname |-> "/mcp"],
     [method |-> "GET", pathname |-> "/health"],
     [method |-> "GET", pathname |-> "/sse"],
     [method |-> "GET", pathname |-> "/"],
     [method |-> "POST", pathname |-> "/health"],
     [method |-> "POST", pathname |-> "/sse"],
     [method |-> "DELETE", pathname |-> "/mcp"]}

InboundRequests ==
    {[method |-> rt.method, pathname |-> rt.pathname, token |-> t, baseUrl |-> b] :
        rt \in Routes, t \in TokenHeaders, b \in BaseUrlHeaders}

\* The inbound requests the concurrent worker model draws from.
McpRequests ==
    {q \in InboundRequests :
        /\ q.pathname = "/mcp"
        /\ q.method = "POST"}

parseTenantCredentials(request) ==
    [token |-> IF Truthy(request.token) THEN request.token[1] ELSE "",
     baseUrl |-> IF Truthy(request.baseUrl) THEN request.baseUrl ELSE None]

\* validateCredentials with the token test left out.
validateCredentialsSkipped(credentials) == FALSE

\* TRUE iff validateCredentials(credentials) throws.
validateCredentialsThrows(credentials) == credentials.token = ""

-----------------------------------------------------------------------------
(* Error taxonomy.  utils/errors.ts is not among the sources; the three    *)
(* classes are modelled from the ApiErrorInfo entity of the specification. *)

AuthenticationError(message) ==
    [kind |-> "Authentication", message |-> message, retryable |-> FALSE]

RateLimitError(message, retryAfterSeconds) ==
    [kind |-> "RateLimit", message |-> message, retryable |-> TRUE,
     retryAfterSeconds |-> retryAfterSeconds]

DigitalOceanApiError(message, statusCode) ==
    [kind |-> "Generic", message |-> message, retryable |-> FALSE,
     statusCode |-> statusCode]

\* Errors raised by the runtime, not by the client's own classes.
SyntaxError == [kind |-> "SyntaxError", message |-> "Unexpected token"]
TypeError(message) == [kind |-> "TypeError", message |-> message]

-----------------------------------------------------------------------------
(* HTTP responses of the provider and JSON decoding.                       *)

\* A parsed JSON value: null, or an object whose members are opaque atoms.
JsonNull == [type |-> "null"]
JsonObject(members) == [type |-> "object", members |-> members]

BodyEmpty == ""
BodyHtml == "<html>Bad Gateway</html>"
BodyNull == "null"
BodyEmptyObject == "{}"
BodyMessage == "{\"message\":\"internal error\"}"
BodyId == "{\"id\":\"not_found\"}"
BodyIdMessage == "{\"id\":\"not_found\",\"message\":\"The resource was not found.\"}"
BodyIdEmptyMessage == "{\"id\":\"unprocessable\",\"message\":\"\"}"
BodyAccount == "{\"account\":{\"status\":\"active\"}}"

\* Bodies of the list and billing endpoints the tool handlers call.
BodyDroplets ==
    "{\"droplets\":[{\"id\":1,\"name\":\"web\"}],\"links\":{\"pages\":{\"next\":\"https://api.digitalocean.com/v2/droplets?page=3&per_page=20\"}},\"meta\":{\"total\":50}}"
BodyDropletsNull == "{\"droplets\":[null]}"
BodyNodePools == "{\"node_pools\":[{\"id\":2,\"name\":\"web\"}]}"
BodyBalance == "{\"account_balance\":\"0.00\"}"

Bodies ==
    {BodyEmpty, BodyHtml, BodyNull, BodyEmptyObject, BodyMessage, BodyId,
     BodyIdMessage, BodyIdEmptyMessage, BodyAccount}

\* JSON.parse(text): the parsed value, or None when it throws a SyntaxError.
JSONparse(text) ==
    CASE text = BodyNull -> Some(JsonNull)
      [] text = BodyEmptyObject -> Some(JsonObject(<< >>))
      [] text = BodyMessage -> Some(JsonObject([message |-> "internal error"]))
      [] text = BodyId -> Some(JsonObject([id |-> "not_found"]))
      [] text = BodyIdMessage ->
            Some(JsonObject([id |-> "not_found",
                             message |-> "The resource was not found."]))
      [] text = BodyIdEmptyMessage ->
            Some(JsonObject([id |-> "unprocessable", message |-> ""]))
      [] text = BodyAccount ->
            Some(JsonObject([account |-> "{\"status\":\"active\"}"]))
      [] text = BodyDroplets ->
            Some(JsonObject([droplets |-> "[{\"id\":1,\"name\":\"web\"}]",
                             links |-> "{\"pages\":{\"next\":\"...\"}}",
                             meta |-> "{\"total\":50}"]))
      [] text = BodyDropletsNull -> Some(JsonObject([droplets |-> "[null]"]))
      [] text = BodyNodePools ->
            Some(JsonObject([node_pools |-> "[{\"id\":2,\"name\":\"web\"}]"]))
      [] text = BodyBalance -> Some(JsonObject([account_balance |-> "0.00"]))
      [] OTHER -> None

\* value.name for a parsed value that is not null: the member or undefined.
Member(value, name) ==
    IF value.type = "object" /\ name \in DOMAIN value.members
    THEN Some(value.members[name])
    ELSE None

Statuses == {200, 202, 204, 304, 401, 403, 404, 429, 500}

\* Response.ok
Ok(status) == status >= 200 /\ status <= 299

\* Values of the Retry-After response header: absent, empty, delay seconds,
\* zero, an HTTP-date, a number followed by a unit.
RetryAfterHeaders ==
    {None,
     Some(<< >>),
     Some(<<"1", "2", "0">>),
     Some(<<"0">>),
     Some(<<"W", "e", "d", ",", " ", "2", "1">>),
     Some(<<"3", "0", "s">>)}

\* Values of the content-type response header, as the media type followed
\* by its parameters.
ContentTypes ==
    {None,
     Some(<<"application/json">>),
     Some(<<"application/json", "; charset=utf-8">>),
     Some(<<"text/plain">>),
     Some(<<"application/pdf">>)}

\* contentType.includes(needle)
Includes(contentType, needle) ==
    \E i \in 1..Len(contentType) : contentType[i] = needle

Responses ==
    {[status |-> st, retryAfter |-> ra, contentType |-> ct, body |-> b] :
        st \in Statuses, ra \in RetryAfterHeaders, ct \in ContentTypes,
        b \in Bodies}

\* The responses the concurrent worker model draws from.
WorkerResponses ==
    {[status |-> 200, retryAfter |-> None,
      contentType |-> Some(<<"application/json">>), body |-> BodyAccount],
     [status |-> 429, retryAfter |-> Some(<<"1", "2", "0">>),
      contentType |-> None, body |-> BodyEmpty],
     [status |-> 500, retryAfter |-> None,
      contentType |-> Some(<<"application/json">>), body |-> BodyMessage]}

-----------------------------------------------------------------------------
(* DigitalOceanClientImpl (src/unnamed/part_000).                          *)

\* The result of a (part of a) call: a returned value or a thrown error,
\* with the way the response body was consumed ("none", "text", "json",
\* "arrayBuffer").
Return(payload, bodyUsed) ==
    [threw |-> FALSE, payload |-> payload, bodyUsed |-> bodyUsed]
Throw(error, bodyUsed) ==
    [threw |-> TRUE, error |-> error, bodyUsed |-> bodyUsed]

Undefined == [form |-> "undefined"]
Json(value) == [form |-> "json", value |-> value]
Text(text) == [form |-> "text", text |-> text]
Bytes(text) == [form |-> "arrayBuffer", text |-> text]
Object(fields) == [form |-> "object", fields |-> fields]
\* A member of a parsed object, kept opaque.
Atom(a) == [form |-> "atom", atom |-> a]

createDigitalOceanClient(creds) ==
    [credentials |-> creds,
     baseUrl |-> IF Truthy(creds.baseUrl) THEN creds.baseUrl[1] ELSE API_BASE_URL]

\* TRUE iff getAuthHeaders() throws its AuthenticationError.
getAuthHeadersThrows(c) == c.credentials.token = ""

getAuthHeaders(c) ==
    [Authorization |-> "Bearer " \o c.credentials.token,
     ContentType |-> "application/json"]

\* ErrorMessage with the two members tried in the other order.
ErrorMessageIdFirst(resp) ==
    LET default == "API error: " \o ToString(resp.status)
        parsed == JSONparse(resp.body)
    IN  IF parsed = None \/ parsed[1].type = "null" THEN default
        ELSE IF Truthy(Member(parsed[1], "id"))
             THEN Member(parsed[1], "id")[1]
        ELSE IF Truthy(Member(parsed[1], "message"))
             THEN Member(parsed[1], "message")[1]
        ELSE default

\* The message of the generic error for a non-2xx response:
\* errorJson.message || errorJson.id || `API error: ${status}`, and the
\* default alone when JSON.parse or the member access throws.
ErrorMessage(resp) ==
    LET default == "API error: " \o ToString(resp.status)
        parsed == JSONparse(resp.body)
    IN  IF parsed = None \/ parsed[1].type = "null" THEN default
        ELSE IF Truthy(Member(parsed[1], "message"))
             THEN Member(parsed[1], "message")[1]
        ELSE IF Truthy(Member(parsed[1], "id"))
             THEN Member(parsed[1], "id")[1]
        ELSE default

\* The decoding of a 2xx response other than 204 (lines 417-422).
Decode(resp) ==
    IF resp.contentType # None /\ Includes(resp.contentType[1], "application/json")
    THEN IF JSONparse(resp.body) = None
         THEN Throw(SyntaxError, "json")
         ELSE Return(Json(JSONparse(resp.body)[1]), "json")
    ELSE Return(Text(resp.body), "text")

\* request() without the 401/403 branch.
requestNoAuthBranch(resp) ==
    IF resp.status = 429
    THEN Throw(RateLimitError("Rate limit exceeded",
                              IF TruthyChars(resp.retryAfter)
                              THEN parseInt(resp.retryAfter[1])
                              ELSE <<60>>), "none")
    ELSE IF ~Ok(resp.status)
    THEN Throw(DigitalOceanApiError(ErrorMessage(resp), resp.status), "text")
    ELSE IF resp.status = 204
    THEN Return(Undefined, "none")
    ELSE Decode(resp)

\* request() with the 204 test placed after the content-type decoding.
requestDecodeBefore204(resp) ==
    IF resp.status = 429
    THEN Throw(RateLimitError("Rate limit exceeded",
                              IF TruthyChars(resp.retryAfter)
                              THEN parseInt(resp.retryAfter[1])
                              ELSE <<60>>), "none")
    ELSE IF resp.status = 401 \/ resp.status = 403
    THEN Throw(AuthenticationError("Authentication failed. Check your API token."),
               "none")
    ELSE IF ~Ok(resp.status)
    THEN Throw(DigitalOceanApiError(ErrorMessage(resp), resp.status), "text")
    ELSE IF resp.contentType # None /\ Includes(resp.contentType[1], "application/json")
    THEN Decode(resp)
    ELSE IF resp.status = 204
    THEN Return(Undefined, "none")
    ELSE Decode(resp)

\* request() with the response.ok test placed first.
requestOkFirst(resp) ==
    IF ~Ok(resp.status)
    THEN Throw(DigitalOceanApiError(ErrorMessage(resp), resp.status), "text")
    ELSE IF resp.status = 204
    THEN Return(Undefined, "none")
    ELSE Decode(resp)

\* request(): what the call yields once fetch has resolved with resp.
request(resp) ==
    IF resp.status = 429
    THEN Throw(RateLimitError("Rate limit exceeded",
                              IF TruthyChars(resp.retryAfter)
                              THEN parseInt(resp.retryAfter[1])
                              ELSE <<60>>), "none")
    ELSE IF resp.status = 401 \/ resp.status = 403
    THEN Throw(AuthenticationError("Authentication failed. Check your API token."),
               "none")
    ELSE IF ~Ok(resp.status)
    THEN Throw(DigitalOceanApiError(ErrorMessage(resp), resp.status), "text")
    ELSE IF resp.status = 204
    THEN Return(Undefined, "none")
    ELSE Decode(resp)

\* getInvoicePDF(): what the call yields once fetch has resolved with resp.
getInvoicePDF(resp) == Return(Bytes(resp.body), "arrayBuffer")

\* getAccount(): response.account of what request() returned.
getAccount(resp) ==
    LET r == request(resp)
    IN  IF r.threw THEN r
        ELSE IF r.payload.form = "undefined"
             \/ (r.payload.form = "json" /\ r.payload.value.type = "null")
        THEN Throw(TypeError("Cannot read properties of undefined (reading 'account')"),
                   r.bodyUsed)
        ELSE IF r.payload.form = "json" /\ Member(r.payload.value, "account") # None
        THEN Return(Atom(Member(r.payload.value, "account")[1]), r.bodyUsed)
        ELSE Return(Undefined, r.bodyUsed)

\* testConnection(): never throws; reports the failure of getAccount().
testConnectionResult(r) ==
    IF r.threw
    THEN Return(Object([connected |-> FALSE, message |-> r.error.message]), r.bodyUsed)
    ELSE Return(Object([connected |-> TRUE,
                        message |-> "Successfully connected to DigitalOcean API"]),
                r.bodyUsed)

-----------------------------------------------------------------------------
(* The state machine.                                                      *)

VARIABLES
    pc,           \* per request: "idle", "ready", "awaitFetch", "done"
    inbound,      \* per request: the inbound Request, once it has arrived
    credentials,  \* per request: the TenantCredentials object parsed from it
    server,       \* per request: the McpServer built for it
    client,       \* per request: the DigitalOceanClientImpl its tools are bound to
    nextObj,      \* the identity the next constructed object receives
    workerResp,   \* per request: the Response the worker returned
    tool,         \* per request: the tool whose handler was invoked
    op,           \* per request: the client operation invoked
    invoked,      \* per request: how many client operations were invoked
    outbound,     \* per request: the outbound HTTP calls issued, in order
    response,     \* per request: the provider's response to the outbound call
    outcome,      \* per request: what the client operation returned or threw
    toolResp,     \* per request: the ToolResponse of the handler
    fn,           \* the helper function applied last, on its own
    arg,          \* the arguments it was applied to
    ret           \* what it returned

vars ==
    <<pc, inbound, credentials, server, client, nextObj, workerResp, tool, op,
      invoked, outbound, response, outcome, toolResp, fn, arg, ret>>

\* The variables of the helper functions applied on their own.
pure == <<fn, arg, ret>>

\* No helper function has been applied yet.
Pending == [pending |-> TRUE]

ClientOps == {"getBalance", "getInvoiceCSV", "getInvoicePDF", "getAccount", "testConnection"}

Tools == {"digitalocean_get_balance", "digitalocean_test_connection"}

\* The client operation a tool handler calls.
ToolOp(t) ==
    CASE t = "digitalocean_get_balance" -> "getBalance"
      [] t = "digitalocean_test_connection" -> "testConnection"

Endpoint(o) ==
    CASE o = "getBalance" -> "/customers/my/balance"
      [] o = "getInvoiceCSV" -> "/customers/my/invoices/inv-1/csv"
      [] o = "getInvoicePDF" -> "/customers/my/invoices/inv-1/pdf"
      [] o = "getAccount" -> "/account"
      [] o = "testConnection" -> "/account"

\* createStatelessServer binding the tools to a client kept from an
\* earlier request when there is one.
createStatelessServerShared(creds, id) ==
    IF \E p \in Req : client[p] # None
    THEN LET p == CHOOSE p \in Req : client[p] # None
         IN  [server |-> [id |-> id, client |-> client[p][1].id, tools |-> Tools],
              client |-> client[p][1]]
    ELSE [server |-> [id |-> id, client |-> id + 1, tools |-> Tools],
          client |-> [id |-> id + 1] @@ createDigitalOceanClient(creds)]

\* createStatelessServer(credentials): a new McpServer (identity id) with
\* every tool bound to a new client (identity id + 1).
createStatelessServer(creds, id) ==
    [server |-> [id |-> id, client |-> id + 1, tools |-> Tools],
     client |-> [id |-> id + 1] @@ createDigitalOceanClient(creds)]

\* What operation o yields once fetch has resolved with resp.
OpResult(o, resp) ==
    CASE o = "getBalance" -> request(resp)
      [] o = "getInvoiceCSV" -> request(resp)
      [] o = "getInvoicePDF" -> getInvoicePDF(resp)
      [] o = "getAccount" -> getAccount(resp)
      [] o = "testConnection" -> testConnectionResult(getAccount(resp))

\* What operation o yields when error is thrown before any response.
OpFailure(o, error) ==
    IF o = "testConnection"
    THEN testConnectionResult(Throw(error, "none"))
    ELSE Throw(error, "none")

\* The handler's ToolResponse: formatError(error) in the catch branch.
ToolResult(t, res) == [isError |-> res.threw]

Init ==
    /\ pc = [r \in Req |-> "idle"]
    /\ inbound = [r \in Req |-> None]
    /\ credentials = [r \in Req |-> None]
    /\ server = [r \in Req |-> None]
    /\ client = [r \in Req |-> None]
    /\ nextObj = 1
    /\ workerResp = [r \in Req |-> None]
    /\ tool = [r \in Req |-> None]
    /\ op = [r \in Req |-> None]
    /\ invoked = [r \in Req |-> 0]
    /\ outbound = [r \in Req |-> << >>]
    /\ response = [r \in Req |-> None]
    /\ outcome = [r \in Req |-> None]
    /\ toolResp = [r \in Req |-> None]
    /\ fn = "none"
    /\ arg = << >>
    /\ ret = Pending

\* The fetch handler taking the MCP branch for every method.
FetchMcpAnyMethod(r, q) ==
    /\ pc[r] = "idle"
    /\ \A p \in Req : p < r => pc[p] # "idle"
    /\ inbound' = [inbound EXCEPT ![r] = Some(q)]
    /\ UNCHANGED <<tool, op, invoked, outbound, response, outcome, toolResp, pure>>
    /\ IF q.pathname = "/health"
       THEN /\ workerResp' = [workerResp EXCEPT ![r] = Some([status |-> 200, kind |-> "health"])]
            /\ pc' = [pc EXCEPT ![r] = "done"]
            /\ UNCHANGED <<credentials, server, client, nextObj>>
       ELSE IF q.pathname = "/mcp"
       THEN LET creds == [id |-> nextObj] @@ parseTenantCredentials(q)
                built == createStatelessServer(creds, nextObj + 1)
            IN  /\ credentials' = [credentials EXCEPT ![r] = Some(creds)]
                /\ IF validateCredentialsThrows(creds)
                   THEN /\ workerResp' = [workerResp EXCEPT ![r] =
                                            Some([status |-> 401, kind |-> "Unauthorized"])]
                        /\ pc' = [pc EXCEPT ![r] = "done"]
                        /\ nextObj' = nextObj + 1
                        /\ UNCHANGED <<server, client>>
                   ELSE /\ server' = [server EXCEPT ![r] = Some(built.server)]
                        /\ client' = [client EXCEPT ![r] = Some(built.client)]
                        /\ nextObj' = nextObj + 3
                        /\ pc' = [pc EXCEPT ![r] = "ready"]
                        /\ UNCHANGED workerResp
       ELSE IF q.pathname = "/sse"
       THEN /\ workerResp' = [workerResp EXCEPT ![r] = Some([status |-> 501, kind |-> "sse"])]
            /\ pc' = [pc EXCEPT ![r] = "done"]
            /\ UNCHANGED <<credentials, server, client, nextObj>>
       ELSE /\ workerResp' = [workerResp EXCEPT ![r] = Some([status |-> 200, kind |-> "info"])]
            /\ pc' = [pc EXCEPT ![r] = "done"]
            /\ UNCHANGED <<credentials, server, client, nextObj>>

\* The worker's fetch handler up to its first suspension point, for the
\* r-th inbound request q.
Fetch(r, q) ==
    /\ pc[r] = "idle"
    /\ \A p \in Req : p < r => pc[p] # "idle"
    /\ inbound' = [inbound EXCEPT ![r] = Some(q)]
    /\ UNCHANGED <<tool, op, invoked, outbound, response, outcome, toolResp, pure>>
    /\ IF q.pathname = "/health"
       THEN /\ workerResp' = [workerResp EXCEPT ![r] = Some([status |-> 200, kind |-> "health"])]
            /\ pc' = [pc EXCEPT ![r] = "done"]
            /\ UNCHANGED <<credentials, server, client, nextObj>>
       ELSE IF q.pathname = "/mcp" /\ q.method = "POST"
       THEN LET creds == [id |-> nextObj] @@ parseTenantCredentials(q)
                built == createStatelessServer(creds, nextObj + 1)
            IN  /\ credentials' = [credentials EXCEPT ![r] = Some(creds)]
                /\ IF validateCredentialsThrows(creds)
                   THEN /\ workerResp' = [workerResp EXCEPT ![r] =
                                            Some([status |-> 401, kind |-> "Unauthorized"])]
                        /\ pc' = [pc EXCEPT ![r] = "done"]
                        /\ nextObj' = nextObj + 1
                        /\ UNCHANGED <<server, client>>
                   ELSE /\ server' = [server EXCEPT ![r] = Some(built.server)]
                        /\ client' = [client EXCEPT ![r] = Some(built.client)]
                        /\ nextObj' = nextObj + 3
                        /\ pc' = [pc EXCEPT ![r] = "ready"]
                        /\ UNCHANGED workerResp
       ELSE IF q.pathname = "/sse"
       THEN /\ workerResp' = [workerResp EXCEPT ![r] = Some([status |-> 501, kind |-> "sse"])]
            /\ pc' = [pc EXCEPT ![r] = "done"]
            /\ UNCHANGED <<credentials, server, client, nextObj>>
       ELSE /\ workerResp' = [workerResp EXCEPT ![r] = Some([status |-> 200, kind |-> "info"])]
            /\ pc' = [pc EXCEPT ![r] = "done"]
            /\ UNCHANGED <<credentials, server, client, nextObj>>

\* The outbound call of operation o on client c.
OutboundCall(c, o) ==
    [url |-> c.baseUrl \o Endpoint(o), base |-> c.baseUrl, headers |-> getAuthHeaders(c)]

\* Operation o starts on the client of request r: the headers are built
\* (which throws on an empty token) and fetch is called.
ClientInvoke(r, o) ==
    /\ op' = [op EXCEPT ![r] = Some(o)]
    /\ invoked' = [invoked EXCEPT ![r] = @ + 1]
    /\ IF getAuthHeadersThrows(client[r][1])
       THEN LET res == OpFailure(o, AuthenticationError(
                          "No token provided. Include X-DigitalOcean-Token header."))
            IN  /\ outcome' = [outcome EXCEPT ![r] = Some(res)]
                /\ toolResp' = [toolResp EXCEPT ![r] =
                                  IF tool'[r] = None THEN None
                                  ELSE Some(ToolResult(tool'[r][1], res))]
                /\ pc' = [pc EXCEPT ![r] = "done"]
                /\ workerResp' = [workerResp EXCEPT ![r] =
                                    IF tool'[r] = None THEN None
                                    ELSE Some([status |-> 200, kind |-> "mcp"])]
                /\ UNCHANGED outbound
       ELSE /\ outbound' = [outbound EXCEPT ![r] =
                               Append(@, OutboundCall(client[r][1], o))]
            /\ pc' = [pc EXCEPT ![r] = "awaitFetch"]
            /\ UNCHANGED <<outcome, toolResp, workerResp>>
    /\ UNCHANGED <<inbound, credentials, server, client, nextObj, response, pure>>

\* The MCP handler dispatches a tools/call message to the handler of tool t.
ToolCall(r, t) ==
    /\ pc[r] = "ready"
    /\ server[r] # None
    /\ t \in server[r][1].tools
    /\ tool' = [tool EXCEPT ![r] = Some(t)]
    /\ ClientInvoke(r, ToolOp(t))

\* The MCP handler answers a message that calls no tool (initialize, tools/list).
McpOther(r) ==
    /\ pc[r] = "ready"
    /\ server[r] # None
    /\ pc' = [pc EXCEPT ![r] = "done"]
    /\ workerResp' = [workerResp EXCEPT ![r] = Some([status |-> 200, kind |-> "mcp"])]
    /\ UNCHANGED <<inbound, credentials, server, client, nextObj, tool, op,
                   invoked, outbound, response, outcome, toolResp, pure>>

\* A caller invokes operation o on a client directly.
ClientCall(r, o) ==
    /\ pc[r] = "ready"
    /\ server[r] = None
    /\ UNCHANGED tool
    /\ ClientInvoke(r, o)

\* Complete on a client that forgets its token once a call has thrown.
CompleteDropsToken(r, res) ==
    /\ outcome' = [outcome EXCEPT ![r] = Some(res)]
    /\ toolResp' = [toolResp EXCEPT ![r] =
                      IF tool[r] = None THEN None
                      ELSE Some(ToolResult(tool[r][1], res))]
    /\ workerResp' = [workerResp EXCEPT ![r] =
                        IF tool[r] = None THEN None
                        ELSE Some([status |-> 200, kind |-> "mcp"])]
    /\ pc' = [pc EXCEPT ![r] = "done"]
    /\ client' = [client EXCEPT ![r] =
                    IF res.threw THEN Some([@[1] EXCEPT !.credentials.token = ""]) ELSE @]
    /\ UNCHANGED <<inbound, credentials, server, nextObj, tool, op,
                   invoked, outbound, pure>>

\* The operation of request r completes with result res.
Complete(r, res) ==
    /\ outcome' = [outcome EXCEPT ![r] = Some(res)]
    /\ toolResp' = [toolResp EXCEPT ![r] =
                      IF tool[r] = None THEN None
                      ELSE Some(ToolResult(tool[r][1], res))]
    /\ workerResp' = [workerResp EXCEPT ![r] =
                        IF tool[r] = None THEN None
                        ELSE Some([status |-> 200, kind |-> "mcp"])]
    /\ pc' = [pc EXCEPT ![r] = "done"]
    /\ UNCHANGED <<inbound, credentials, server, client, nextObj, tool, op,
                   invoked, outbound, pure>>

\* Respond issuing the call again after a 429.
RespondRetry(r, resp) ==
    /\ pc[r] = "awaitFetch"
    /\ response' = [response EXCEPT ![r] = Some(resp)]
    /\ IF resp.status = 429 /\ Len(outbound[r]) < 2
       THEN /\ outbound' = [outbound EXCEPT ![r] =
                               Append(@, OutboundCall(client[r][1], op[r][1]))]
            /\ UNCHANGED <<pc, inbound, credentials, server, client, nextObj,
                           workerResp, tool, op, invoked, outcome, toolResp, pure>>
       ELSE Complete(r, OpResult(op[r][1], resp))

\* fetch resolves with resp: the operation classifies and decodes it.
Respond(r, resp) ==
    /\ pc[r] = "awaitFetch"
    /\ response' = [response EXCEPT ![r] = Some(resp)]
    /\ Complete(r, OpResult(op[r][1], resp))

\* fetch rejects: a transport failure below the HTTP layer.
FetchFails(r) ==
    /\ pc[r] = "awaitFetch"
    /\ UNCHANGED response
    /\ Complete(r, OpFailure(op[r][1], TypeError("fetch failed")))

Next ==
    \/ \E r \in Req, q \in McpRequests : Fetch(r, q)
    \/ \E r \in Req, t \in Tools : ToolCall(r, t)
    \/ \E r \in Req : McpOther(r)
    \/ \E r \in Req, resp \in WorkerResponses : Respond(r, resp)
    \/ \E r \in Req : FetchFails(r)

Spec == Init /\ [][Next]_vars

-----------------------------------------------------------------------------
(* The client on its own: one client built by createDigitalOceanClient     *)
(* from any credentials (the empty token included) and called directly,    *)
(* against every response of the provider.                                 *)

CredentialSets ==
    {[id |-> 1, token |-> t, baseUrl |-> b] :
        t \in {"", "tokA"}, b \in {None, Some("http://mock.test/v2")}}

InitEngine ==
    /\ \E creds \in CredentialSets :
          /\ credentials = [r \in Req |-> IF r = 1 THEN Some(creds) ELSE None]
          /\ client = [r \in Req |->
                         IF r = 1
                         THEN Some([id |-> 2] @@ createDigitalOceanClient(creds))
                         ELSE None]
    /\ pc = [r \in Req |-> IF r = 1 THEN "ready" ELSE "idle"]
    /\ inbound = [r \in Req |-> None]
    /\ server = [r \in Req |-> None]
    /\ nextObj = 3
    /\ workerResp = [r \in Req |-> None]
    /\ tool = [r \in Req |-> None]
    /\ op = [r \in Req |-> None]
    /\ invoked = [r \in Req |-> 0]
    /\ outbound = [r \in Req |-> << >>]
    /\ response = [r \in Req |-> None]
    /\ outcome = [r \in Req |-> None]
    /\ toolResp = [r \in Req |-> None]
    /\ fn = "none"
    /\ arg = << >>
    /\ ret = Pending

NextEngine ==
    \/ \E o \in ClientOps : ClientCall(1, o)
    \/ \E resp \in Responses : Respond(1, resp)
    \/ FetchFails(1)

SpecEngine == InitEngine /\ [][NextEngine]_vars

-----------------------------------------------------------------------------
(* The worker answering one inbound request of any route.                  *)

NextRouting ==
    \/ \E q \in InboundRequests : Fetch(1, q)
    \/ \E t \in Tools : ToolCall(1, t)
    \/ McpOther(1)
    \/ \E resp \in WorkerResponses : Respond(1, resp)
    \/ FetchFails(1)

SpecRouting == Init /\ [][NextRouting]_vars

-----------------------------------------------------------------------------
(* One client called again and again: once a call has completed, its       *)
(* caller may invoke another operation on the same client.                 *)

\* The calls made on one client.
MaxCalls == 2

\* The responses of the provider to the calls of the one client.
ClientResponses ==
    WorkerResponses
        \cup {[status |-> 401, retryAfter |-> None,
               contentType |-> Some(<<"application/json">>), body |-> BodyMessage]}

\* The caller has the result of its call and is about to make another: what
\* the completed call left is in its own locals, which are gone.
CallAgain(r) ==
    /\ pc[r] = "done"
    /\ server[r] = None
    /\ client[r] # None
    /\ invoked[r] < MaxCalls
    /\ pc' = [pc EXCEPT ![r] = "ready"]
    /\ op' = [op EXCEPT ![r] = None]
    /\ response' = [response EXCEPT ![r] = None]
    /\ outcome' = [outcome EXCEPT ![r] = None]
    /\ UNCHANGED <<inbound, credentials, server, client, nextObj, workerResp, tool,
                   invoked, outbound, toolResp, pure>>

NextClient ==
    \/ \E o \in ClientOps : ClientCall(1, o)
    \/ \E resp \in ClientResponses : Respond(1, resp)
    \/ FetchFails(1)
    \/ CallAgain(1)

SpecClient == InitEngine /\ [][NextClient]_vars

-----------------------------------------------------------------------------
(* JavaScript values as the helper functions see them: every value is a    *)
(* record tagged with its type; an object keeps its keys in insertion      *)
(* order (keys) next to its members (f).                                   *)

Undef == [t |-> "undefined"]
Null == [t |-> "null"]
Bool(b) == [t |-> "boolean", b |-> b]
Num(n) == [t |-> "number", n |-> n]
NumNaN == [t |-> "NaN"]
Str(x) == [t |-> "string", s |-> x]
Arr(elems) == [t |-> "array", v |-> elems]
Obj(keys, f) == [t |-> "object", keys |-> keys, f |-> f]

\* o[k] and o.k: undefined when o has no such member.
Get(o, k) ==
    IF o.t = "object" /\ k \in DOMAIN o.f THEN o.f[k]
    ELSE IF o.t = "array" /\ \E i \in 1..Len(o.v) : ToString(i - 1) = k
    THEN o.v[CHOOSE i \in 1..Len(o.v) : ToString(i - 1) = k]
    ELSE Undef

\* v is null or undefined.
Nullish(v) == v.t \in {"undefined", "null"}

\* o?.k: undefined when o is null or undefined.
GetOpt(o, k) == IF o.t \in {"undefined", "null"} THEN Undef ELSE Get(o, k)

\* !v
Falsy(v) ==
    \/ v.t \in {"undefined", "null", "NaN"}
    \/ v.t = "boolean" /\ ~v.b
    \/ v.t = "number" /\ v.n = 0
    \/ v.t = "string" /\ v.s = ""

\* v || d
Or(v, d) == IF Falsy(v) THEN d ELSE v

\* v.length of an array; other objects have none.
Length(v) == IF v.t = "array" THEN Num(Len(v.v)) ELSE Undef

\* The number parseInt returned.
ToNum(p) == IF p = NaN THEN NumNaN ELSE Num(p[1])

\* What a helper function yields: a returned value or a thrown error.
Returned(v) == [threw |-> FALSE, value |-> v]
Thrown(e) == [threw |-> TRUE, error |-> e]

-----------------------------------------------------------------------------
(* Pagination (src/unnamed/part_000, lines 425-450).                       *)

\* The longest list the provider returns in the model.
MaxItems == 3

Item(i) == Obj(<<"id", "name">>, [id |-> Num(i), name |-> Str("web")])

\* The lists of 0..MaxItems items, in ascending and in descending id order.
ItemLists ==
    {Arr([i \in 1..n |-> Item(i)]) : n \in 0..MaxItems}
        \cup {Arr([i \in 1..n |-> Item(n + 1 - i)]) : n \in 2..MaxItems}

LinkPage3 == "https://api.digitalocean.com/v2/droplets?page=3&per_page=20"
LinkPage12 == "https://api.digitalocean.com/v2/droplets?per_page=20&page=12"
LinkNoPage == "https://api.digitalocean.com/v2/droplets?per_page=20"
LinkPageEmpty == "https://api.digitalocean.com/v2/droplets?page="
LinkPageAbc == "https://api.digitalocean.com/v2/droplets?page=abc"
LinkPageLast == "https://api.digitalocean.com/v2/droplets?page=last"
LinkPage2Half == "https://api.digitalocean.com/v2/droplets?page=2.5"
LinkRelative == "/v2/droplets?page=3"
LinkGarbage == "not a url"

NextLinks ==
    {LinkPage3, LinkPage12, LinkNoPage, LinkPageEmpty, LinkPageAbc, LinkPageLast,
     LinkPage2Half, LinkRelative, LinkGarbage}

\* new URL(url).searchParams: the query pairs in order, each value as its
\* characters; None when new URL(url) throws (no scheme and no base).
NewURLSearchParams(url) ==
    CASE url = LinkPage3 -> Some(<< <<"page", <<"3">> >>, <<"per_page", <<"2", "0">> >> >>)
      [] url = LinkPage12 -> Some(<< <<"per_page", <<"2", "0">> >>, <<"page", <<"1", "2">> >> >>)
      [] url = LinkNoPage -> Some(<< <<"per_page", <<"2", "0">> >> >>)
      [] url = LinkPageEmpty -> Some(<< <<"page", << >> >> >>)
      [] url = LinkPageAbc -> Some(<< <<"page", <<"a", "b", "c">> >> >>)
      [] url = LinkPageLast -> Some(<< <<"page", <<"l", "a", "s", "t">> >> >>)
      [] url = LinkPage2Half -> Some(<< <<"page", <<"2", ".", "5">> >> >>)
      [] OTHER -> None

\* searchParams.get(name): the first value of that name, or null.
SearchParamsGet(pairs, name) ==
    IF \E i \in 1..Len(pairs) : pairs[i][1] = name
    THEN LET i == CHOOSE i \in 1..Len(pairs) :
                    /\ pairs[i][1] = name
                    /\ \A j \in 1..(i - 1) : pairs[j][1] # name
         IN  Some(pairs[i][2])
    ELSE None

\* extractPageNumber with the test of the page value left out.
extractPageNumberNoTest(url) ==
    LET params == NewURLSearchParams(url)
    IN  IF params = None THEN Undef
        ELSE LET page == SearchParamsGet(params[1], "page")
             IN  IF page # None THEN ToNum(parseInt(page[1])) ELSE Num(1)

extractPageNumber(url) ==
    LET params == NewURLSearchParams(url)
    IN  IF params = None THEN Undef
        ELSE LET page == SearchParamsGet(params[1], "page")
             IN  IF TruthyChars(page) THEN ToNum(parseInt(page[1])) ELSE Undef

\* parsePaginatedResponse reading the length before the default is applied.
parsePaginatedResponseRawCount(data, key) ==
    IF data.t \in {"undefined", "null"}
    THEN Thrown(TypeError("Cannot read properties of undefined"))
    ELSE LET items == IF Falsy(Get(data, key)) THEN Arr(<< >>) ELSE Get(data, key)
             next == GetOpt(GetOpt(Get(data, "links"), "pages"), "next")
         IN  Returned(Obj(<<"items", "count", "total", "hasMore", "nextPage">>,
                 [items |-> items,
                  count |-> IF Get(data, key).t = "array"
                            THEN Length(Get(data, key)) ELSE Num(1),
                  total |-> GetOpt(Get(data, "meta"), "total"),
                  hasMore |-> Bool(~Falsy(next)),
                  nextPage |-> IF Falsy(next) THEN Undef ELSE extractPageNumber(next.s)]))

\* parsePaginatedResponse taking hasMore from the presence of links.
parsePaginatedResponseLinks(data, key) ==
    IF data.t \in {"undefined", "null"}
    THEN Thrown(TypeError("Cannot read properties of undefined"))
    ELSE LET items == IF Falsy(Get(data, key)) THEN Arr(<< >>) ELSE Get(data, key)
             next == GetOpt(GetOpt(Get(data, "links"), "pages"), "next")
         IN  Returned(Obj(<<"items", "count", "total", "hasMore", "nextPage">>,
                 [items |-> items,
                  count |-> Length(items),
                  total |-> GetOpt(Get(data, "meta"), "total"),
                  hasMore |-> Bool(~Falsy(Get(data, "links"))),
                  nextPage |-> IF Falsy(next) THEN Undef ELSE extractPageNumber(next.s)]))

\* parsePaginatedResponse taking total from the number of items.
parsePaginatedResponseTotal(data, key) ==
    IF data.t \in {"undefined", "null"}
    THEN Thrown(TypeError("Cannot read properties of undefined"))
    ELSE LET items == IF Falsy(Get(data, key)) THEN Arr(<< >>) ELSE Get(data, key)
             next == GetOpt(GetOpt(Get(data, "links"), "pages"), "next")
         IN  Returned(Obj(<<"items", "count", "total", "hasMore", "nextPage">>,
                 [items |-> items,
                  count |-> Length(items),
                  total |-> Length(items),
                  hasMore |-> Bool(~Falsy(next)),
                  nextPage |-> IF Falsy(next) THEN Undef ELSE extractPageNumber(next.s)]))

\* parsePaginatedResponse(response, key), the response called data here; reading a member of undefined or
\* null throws.
parsePaginatedResponse(data, key) ==
    IF data.t \in {"undefined", "null"}
    THEN Thrown(TypeError("Cannot read properties of undefined"))
    ELSE LET items == IF Falsy(Get(data, key)) THEN Arr(<< >>) ELSE Get(data, key)
             next == GetOpt(GetOpt(Get(data, "links"), "pages"), "next")
         IN  Returned(Obj(<<"items", "count", "total", "hasMore", "nextPage">>,
                 [items |-> items,
                  count |-> Length(items),
                  total |-> GetOpt(Get(data, "meta"), "total"),
                  hasMore |-> Bool(~Falsy(next)),
                  nextPage |-> IF Falsy(next) THEN Undef ELSE extractPageNumber(next.s)]))

\* The page descriptor a handler builds from an unpaginated list:
\* { items: list, count: list.length, hasMore: false }.
HandBuiltPage(list) ==
    IF list.t \in {"undefined", "null"}
    THEN Thrown(TypeError("Cannot read properties of undefined (reading 'length')"))
    ELSE Returned(Obj(<<"items", "count", "hasMore">>,
             [items |-> list, count |-> Length(list), hasMore |-> Bool(FALSE)]))

\* An object with the members of f that are not left out.
ObjOf(order, f) ==
    LET present == {k \in DOMAIN f : f[k] # Undef}
    IN  Obj(SelectSeq(order, LAMBDA k : k \in present), [k \in present |-> f[k]])

ListFields == {Undef, Null} \cup ItemLists

MetaFields ==
    {Undef, Null, Obj(<< >>, << >>),
     Obj(<<"total">>, [total |-> Num(0)]), Obj(<<"total">>, [total |-> Num(50)])}

NextFields == {Undef, Null, Str("")} \cup {Str(l) : l \in NextLinks}

LinksFields ==
    {Undef, Null, Obj(<< >>, << >>), Obj(<<"pages">>, [pages |-> Null])}
        \cup {Obj(<<"pages">>, [pages |-> ObjOf(<<"next">>, [next |-> n])]) :
                n \in NextFields}

\* The decoded bodies a list call hands to parsePaginatedResponse.
Envelopes ==
    {Undef, Null}
        \cup {ObjOf(<<"droplets", "links", "meta">>,
                    [droplets |-> l, links |-> k, meta |-> m]) :
                l \in ListFields, k \in LinksFields, m \in MetaFields}

ListKeys == {"droplets", "volumes"}

-----------------------------------------------------------------------------
(* Query strings (src/unnamed/part_000, lines 452-462).  A string is the   *)
(* sequence of its tokens, the empty sequence being "".                    *)

\* The most parameters one call passes in the model.
MaxParams == 2

QueryKeys == {"per_page", "tag_name", "replace"}

QueryValues ==
    {Undef, Null, Str(""), Str("web"), Str("a b"), Bool(FALSE), Bool(TRUE),
     Num(0), Num(20)}

\* Object.entries(params): the members in insertion order, each key once.
ParamMaps ==
    UNION {{m \in [1..n -> QueryKeys \X QueryValues] :
                \A i, j \in 1..n : i # j => m[i][1] # m[j][1]} : n \in 0..MaxParams}

\* String(value), which is also what a template literal puts for ${value}.
RECURSIVE String(_), Join(_, _)
String(value) ==
    CASE value.t = "string" -> value.s
      [] value.t = "number" -> ToString(value.n)
      [] value.t = "boolean" -> IF value.b THEN "true" ELSE "false"
      [] value.t = "array" -> Join(value.v, ",")
      [] value.t = "object" -> "[object Object]"
      [] value.t = "NaN" -> "NaN"
      [] value.t = "null" -> "null"
      [] OTHER -> "undefined"

\* elems.join(sep): null and undefined elements give the empty string.
Join(elems, sep) ==
    IF elems = << >> THEN ""
    ELSE LET first == IF elems[1].t \in {"undefined", "null"} THEN ""
                      ELSE String(elems[1])
         IN  IF Len(elems) = 1 THEN first
             ELSE first \o sep \o Join(Tail(elems), sep)

\* The application/x-www-form-urlencoded form of a value.
FormEncode(x) == IF x = "a b" THEN "a+b" ELSE x

\* URLSearchParams.toString() of the entries set one after another.
RECURSIVE SearchParamsToString(_)
SearchParamsToString(entries) ==
    IF entries = << >> THEN << >>
    ELSE LET first == <<entries[1][1], "=", FormEncode(String(entries[1][2]))>>
         IN  IF Len(entries) = 1 THEN first
             ELSE first \o <<"&">> \o SearchParamsToString(Tail(entries))

\* buildQueryString dropping every falsy value.
buildQueryStringFalsy(params) ==
    LET filtered == SelectSeq(params, LAMBDA e : ~Falsy(e[2]))
    IN  IF Len(filtered) = 0 THEN << >>
        ELSE <<"?">> \o SearchParamsToString(filtered)

buildQueryString(params) ==
    LET filtered == SelectSeq(params,
                        LAMBDA e : e[2] # Undef /\ e[2] # Null /\ e[2] # Str(""))
    IN  IF Len(filtered) = 0 THEN << >>
        ELSE <<"?">> \o SearchParamsToString(filtered)

-----------------------------------------------------------------------------
(* Serialization and the error mapper (src/src/utils/formatters.ts).  A    *)
(* text is the sequence of its lines.                                      *)

Quote(x) == "\"" \o x \o "\""

\* The line sequence with a comma after its last line.
AddComma(ls) == [ls EXCEPT ![Len(ls)] = @ \o ","]

\* JSON.stringify(value, null, 2).  JsonLines gives the lines of a value
\* that starts at indentation pad; members whose value is undefined are
\* left out of objects and become null in arrays, NaN becomes null.
RECURSIVE JsonLines(_, _), JsonElements(_, _), JsonMembers(_, _, _)
JsonLines(value, pad) ==
    CASE value.t = "string" -> <<Quote(value.s)>>
      [] value.t \in {"number", "boolean"} -> <<String(value)>>
      [] value.t = "array" ->
            IF value.v = << >> THEN <<"[]">>
            ELSE <<"[">> \o JsonElements(value.v, pad \o "  ") \o <<pad \o "]">>
      [] value.t = "object" ->
            LET kept == SelectSeq(value.keys, LAMBDA k : value.f[k] # Undef)
            IN  IF kept = << >> THEN <<"{}">>
                ELSE <<"{">> \o JsonMembers(kept, value.f, pad \o "  ")
                         \o <<pad \o "}">>
      [] OTHER -> <<"null">>

JsonElements(elems, pad) ==
    LET ls == JsonLines(elems[1], pad)
        first == [ls EXCEPT ![1] = pad \o @]
    IN  IF Len(elems) = 1 THEN first
        ELSE AddComma(first) \o JsonElements(Tail(elems), pad)

JsonMembers(keys, f, pad) ==
    LET ls == JsonLines(f[keys[1]], pad)
        first == [ls EXCEPT ![1] = pad \o Quote(keys[1]) \o ": " \o @]
    IN  IF Len(keys) = 1 THEN first
        ELSE AddComma(first) \o JsonMembers(Tail(keys), f, pad)

\* JSON.stringify(undefined) is undefined, no text at all.
JSONstringify(value) == IF value = Undef THEN << >> ELSE JsonLines(value, "")

\* error instanceof Error: the thrown value is an error object, not a plain
\* JavaScript value.
InstanceofError(error) == "kind" \in DOMAIN error

\* error instanceof DigitalOceanApiError: the base class of the three
\* classified errors.
InstanceofDigitalOceanApiError(error) ==
    InstanceofError(error) /\ error.kind \in {"Authentication", "RateLimit", "Generic"}

\* formatErrorForLogging(error): the structured details of a thrown value.
formatErrorForLogging(error) ==
    IF InstanceofError(error)
    THEN Obj(<<"name", "message">>,
             [name |-> Str(error.kind), message |-> Str(error.message)])
    ELSE Obj(<<"error">>, [error |-> Str(String(error))])

\* formatError appending the notice for every thrown value with a retryable
\* flag.
formatErrorAnyRetryable(error) ==
    LET errorInfo == formatErrorForLogging(error)
        message ==
            IF InstanceofError(error)
            THEN "Error: " \o error.message
                     \o (IF "retryable" \in DOMAIN error /\ error.retryable
                         THEN " (retryable)" ELSE "")
            ELSE "Error: " \o String(error)
    IN  [content |-> <<[type |-> "text",
                        text |-> JSONstringify(Obj(<<"error", "details">>,
                                     [error |-> Str(message), details |-> errorInfo]))]>>,
         isError |-> TRUE]

formatError(error) ==
    LET errorInfo == formatErrorForLogging(error)
        message ==
            IF InstanceofDigitalOceanApiError(error)
            THEN "Error: " \o error.message
                     \o (IF error.retryable THEN " (retryable)" ELSE "")
            ELSE IF InstanceofError(error)
            THEN "Error: " \o error.message
            ELSE "Error: " \o String(error)
    IN  [content |-> <<[type |-> "text",
                        text |-> JSONstringify(Obj(<<"error", "details">>,
                                     [error |-> Str(message), details |-> errorInfo]))]>>,
         isError |-> TRUE]

-----------------------------------------------------------------------------
(* Markdown rendering (src/src/utils/formatters.ts, lines 78-357).         *)

\* strs.join(sep) over texts.
RECURSIVE JoinText(_, _)
JoinText(strs, sep) ==
    IF strs = << >> THEN ""
    ELSE IF Len(strs) = 1 THEN strs[1]
    ELSE strs[1] \o sep \o JoinText(Tail(strs), sep)

\* One table line `| a | b |` of the cells.
Row(cells) == "| " \o JoinText(cells, " | ") \o " |"

\* v has no array methods although it is neither null nor undefined.
NotArray(v) == ~Nullish(v) /\ v.t # "array"

\* o?.length || 0
LengthOrZero(v) == String(Or(IF Nullish(v) THEN Undef ELSE Length(v), Num(0)))

\* networks?.v4?.find((n) => n.type === 'public')?.ip_address
PublicIp(droplet) ==
    LET v4 == GetOpt(GetOpt(droplet, "networks"), "v4")
        hits == IF v4.t = "array"
                THEN SelectSeq(v4.v, LAMBDA n : Get(n, "type") = Str("public"))
                ELSE << >>
    IN  IF hits = << >> THEN Undef ELSE Get(hits[1], "ip_address")

\* The find callback reads n.type of a null or undefined entry.
PublicIpBreaks(droplet) ==
    LET v4 == GetOpt(GetOpt(droplet, "networks"), "v4")
    IN  \/ NotArray(v4)
        \/ /\ v4.t = "array"
           /\ \E i \in 1..Len(v4.v) :
                /\ Nullish(v4.v[i])
                /\ \A j \in 1..(i - 1) : Get(v4.v[j], "type") # Str("public")

\* The cells of the row a table renderer pushes for one item.
TableCells(entityType, x) ==
    CASE entityType = "droplets" ->
            <<String(Get(x, "id")), String(Get(x, "name")),
              String(Get(x, "status")), String(Or(PublicIp(x), Str("-"))),
              String(Or(GetOpt(Get(x, "region"), "slug"), Str("-"))),
              String(Get(x, "size_slug"))>>
      [] entityType = "volumes" ->
            <<String(Get(x, "id")), String(Get(x, "name")),
              String(Get(x, "size_gigabytes")),
              String(Or(GetOpt(Get(x, "region"), "slug"), Str("-"))),
              String(Or(IF Get(x, "droplet_ids").t = "array"
                        THEN Str(Join(Get(x, "droplet_ids").v, ", "))
                        ELSE Undef,
                        Str("Not attached")))>>
      [] entityType = "firewalls" ->
            <<String(Get(x, "id")), String(Get(x, "name")),
              String(Get(x, "status")), LengthOrZero(Get(x, "droplet_ids")),
              LengthOrZero(Get(x, "inbound_rules")),
              LengthOrZero(Get(x, "outbound_rules"))>>
      [] entityType = "load_balancers" ->
            <<String(Get(x, "id")), String(Get(x, "name")),
              String(Or(Get(x, "ip"), Str("-"))), String(Get(x, "status")),
              String(Or(GetOpt(Get(x, "region"), "slug"), Str("-"))),
              LengthOrZero(Get(x, "droplet_ids"))>>
      [] entityType = "vpcs" ->
            <<String(Get(x, "id")), String(Get(x, "name")),
              String(Get(x, "region")), String(Get(x, "ip_range")),
              IF Falsy(Get(x, "default")) THEN "No" ELSE "Yes">>
      [] entityType = "kubernetes_clusters" ->
            <<String(Get(x, "id")), String(Get(x, "name")),
              String(Get(x, "region")), String(Get(x, "version")),
              String(Or(GetOpt(Get(x, "status"), "state"), Str("-"))),
              LengthOrZero(Get(x, "node_pools"))>>
      [] entityType = "databases" ->
            <<String(Get(x, "id")), String(Get(x, "name")),
              String(Get(x, "engine")), String(Get(x, "version")),
              String(Get(x, "size")), String(Get(x, "region")),
              String(Get(x, "status"))>>
      [] entityType = "apps" ->
            <<String(Get(x, "id")),
              String(Or(GetOpt(Get(x, "spec"), "name"), Str("-"))),
              String(Or(GetOpt(Get(x, "region"), "slug"), Str("-"))),
              String(Or(Get(x, "tier_slug"), Str("-"))),
              String(Or(Get(x, "live_url"), Str("-")))>>

\* The row of an item calls an array method on a value that has none.
TableBreaks(entityType, x) ==
    CASE entityType = "droplets" -> PublicIpBreaks(x)
      [] entityType = "volumes" -> NotArray(Get(x, "droplet_ids"))
      [] OTHER -> FALSE

\* A table: its two header lines and one row per item; reading a field of a
\* null or undefined item, or calling an array method on a value that has
\* none, throws.
Table(header, rule, entityType, list) ==
    IF \E i \in 1..Len(list) : Nullish(list[i]) \/ TableBreaks(entityType, list[i])
    THEN Thrown(TypeError("Cannot read properties of null"))
    ELSE Returned(<<header, rule>>
                    \o [i \in 1..Len(list) |-> Row(TableCells(entityType, list[i]))])

formatDropletsTable(droplets) ==
    Table("| ID | Name | Status | IP | Region | Size |", "|---|---|---|---|---|---|",
          "droplets", droplets)

formatVolumesTable(volumes) ==
    Table("| ID | Name | Size (GB) | Region | Attached To |", "|---|---|---|---|---|",
          "volumes", volumes)

formatFirewallsTable(firewalls) ==
    Table("| ID | Name | Status | Droplets | Inbound Rules | Outbound Rules |",
          "|---|---|---|---|---|---|", "firewalls", firewalls)

formatLoadBalancersTable(loadBalancers) ==
    Table("| ID | Name | IP | Status | Region | Droplets |", "|---|---|---|---|---|---|",
          "load_balancers", loadBalancers)

formatVPCsTable(vpcs) ==
    Table("| ID | Name | Region | IP Range | Default |", "|---|---|---|---|---|",
          "vpcs", vpcs)

formatKubernetesClustersTable(clusters) ==
    Table("| ID | Name | Region | Version | Status | Node Pools |",
          "|---|---|---|---|---|---|", "kubernetes_clusters", clusters)

formatDatabasesTable(databases) ==
    Table("| ID | Name | Engine | Version | Size | Region | Status |",
          "|---|---|---|---|---|---|---|", "databases", databases)

formatAppsTable(apps) ==
    Table("| ID | Name | Region | Tier | Live URL |", "|---|---|---|---|---|",
          "apps", apps)

\* Object.keys(value): the keys of an object in insertion order, the indices
\* of an array, none for a number or a boolean.
ObjectKeys(value) ==
    CASE value.t = "object" -> value.keys
      [] value.t = "array" -> [i \in 1..Len(value.v) |-> ToString(i - 1)]
      [] OTHER -> << >>

\* A text of sixty characters and its first fifty.
LongText == "0123456789012345678901234567890123456789012345678901234567890"
LongTextCut == "01234567890123456789012345678901234567890123456789"

\* x.substring(0, 50)
Substring50(x) == IF x = LongText THEN LongTextCut ELSE x

\* keys.slice(0, 6)
Slice6(keys) == SubSeq(keys, 1, IF Len(keys) < 6 THEN Len(keys) ELSE 6)

\* formatGenericTable taking a column for every key of the first item.
formatGenericTableAllKeys(list) ==
    IF Len(list) = 0 THEN Returned(<<"_No items_">>)
    ELSE IF Nullish(list[1])
    THEN Thrown(TypeError("Cannot convert undefined or null to object"))
    ELSE LET keys == ObjectKeys(list[1])
             Cell(val) ==
                 IF Nullish(val) THEN "-"
                 ELSE IF val.t \in {"object", "array"} THEN "[object]"
                 ELSE Substring50(String(val))
         IN  IF keys # << >> /\ \E i \in 1..Len(list) : Nullish(list[i])
             THEN Thrown(TypeError("Cannot read properties of null"))
             ELSE Returned(
                    <<Row(keys),
                      "|" \o JoinText([i \in 1..Len(keys) |-> "---"], "|") \o "|">>
                    \o [i \in 1..Len(list) |->
                            Row([j \in 1..Len(keys) |-> Cell(Get(list[i], keys[j]))])])

formatGenericTable(list) ==
    IF Len(list) = 0 THEN Returned(<<"_No items_">>)
    ELSE IF Nullish(list[1])
    THEN Thrown(TypeError("Cannot convert undefined or null to object"))
    ELSE LET keys == Slice6(ObjectKeys(list[1]))
             Cell(val) ==
                 IF Nullish(val) THEN "-"
                 ELSE IF val.t \in {"object", "array"} THEN "[object]"
                 ELSE Substring50(String(val))
         IN  IF keys # << >> /\ \E i \in 1..Len(list) : Nullish(list[i])
             THEN Thrown(TypeError("Cannot read properties of null"))
             ELSE Returned(
                    <<Row(keys),
                      "|" \o JoinText([i \in 1..Len(keys) |-> "---"], "|") \o "|">>
                    \o [i \in 1..Len(list) |->
                            Row([j \in 1..Len(keys) |-> Cell(Get(list[i], keys[j]))])])

formatArrayAsMarkdown(data, entityType) == formatGenericTable(data.v)

\* str.charAt(0).toUpperCase() + str.slice(1)
capitalize(str) ==
    CASE str = "droplets" -> "Droplets"
      [] str = "droplet" -> "Droplet"
      [] str = "volumes" -> "Volumes"
      [] str = "volume" -> "Volume"
      [] str = "firewalls" -> "Firewalls"
      [] str = "firewall" -> "Firewall"
      [] str = "load_balancers" -> "Load_balancers"
      [] str = "load_balancer" -> "Load_balancer"
      [] str = "vpcs" -> "Vpcs"
      [] str = "vpc" -> "Vpc"
      [] str = "kubernetes_clusters" -> "Kubernetes_clusters"
      [] str = "kubernetes_cluster" -> "Kubernetes_cluster"
      [] str = "databases" -> "Databases"
      [] str = "database" -> "Database"
      [] str = "apps" -> "Apps"
      [] str = "app" -> "App"
      [] str = "node_pools" -> "Node_pools"
      [] str = "node_pool" -> "Node_pool"
      [] str = "replicas" -> "Replicas"
      [] str = "replica" -> "Replica"
      [] str = "balance" -> "Balance"
      [] OTHER -> str

\* entityType.replace(/s$/, '')
Singular(entityType) ==
    CASE entityType = "droplets" -> "droplet"
      [] entityType = "volumes" -> "volume"
      [] entityType = "firewalls" -> "firewall"
      [] entityType = "load_balancers" -> "load_balancer"
      [] entityType = "vpcs" -> "vpc"
      [] entityType = "kubernetes_clusters" -> "kubernetes_cluster"
      [] entityType = "databases" -> "database"
      [] entityType = "apps" -> "app"
      [] entityType = "node_pools" -> "node_pool"
      [] entityType = "replicas" -> "replica"
      [] OTHER -> entityType

\* formatKey(key): snake_case to Title Case.
formatKey(key) ==
    CASE key = "id" -> "Id"
      [] key = "name" -> "Name"
      [] key = "status" -> "Status"
      [] key = "region" -> "Region"
      [] key = "slug" -> "Slug"
      [] key = "size_slug" -> "Size Slug"
      [] key = "networks" -> "Networks"
      [] key = "tags" -> "Tags"
      [] key = "items" -> "Items"
      [] key = "count" -> "Count"
      [] key = "total" -> "Total"
      [] key = "hasMore" -> "HasMore"
      [] key = "nextPage" -> "NextPage"
      [] key = "month_to_date_balance" -> "Month To Date Balance"
      [] key = "account_balance" -> "Account Balance"
      [] key = "connected" -> "Connected"
      [] key = "message" -> "Message"
      [] key = "success" -> "Success"
      [] OTHER -> key

\* The code fence of three backquotes, spelt with a character a string of
\* this module can hold.
Fence == "~~~"

\* One entry of formatObjectAsMarkdown per member, none for null or undefined.
RECURSIVE ObjectEntries(_, _)
ObjectEntries(keys, f) ==
    IF keys = << >> THEN << >>
    ELSE LET value == f[keys[1]]
             entry ==
                 IF Nullish(value) THEN << >>
                 ELSE IF value.t \in {"object", "array"}
                 THEN <<"**" \o formatKey(keys[1]) \o ":**", Fence \o "json">>
                          \o JSONstringify(value) \o <<Fence>>
                 ELSE <<"**" \o formatKey(keys[1]) \o ":** " \o String(value)>>
         IN  entry \o ObjectEntries(Tail(keys), f)

\* formatObjectAsMarkdown heading the entity with the tag as it is.
formatObjectAsMarkdownPlural(data, entityType) ==
    Returned(<<"## " \o capitalize(entityType), "">>
                 \o ObjectEntries(data.keys, data.f))

formatObjectAsMarkdown(data, entityType) ==
    Returned(<<"## " \o capitalize(Singular(entityType)), "">>
                 \o ObjectEntries(data.keys, data.f))

isPaginatedResponse(data) ==
    data.t = "object" /\ "items" \in DOMAIN data.f /\ data.f["items"].t = "array"

\* The head of a page with the has-more line whatever hasMore is.
PageHeadAlwaysMore(data, entityType) ==
    <<"## " \o capitalize(entityType), "">>
      \o (IF Get(data, "total") # Undef
          THEN <<"**Total:** " \o String(Get(data, "total"))
                    \o " | **Showing:** " \o String(Get(data, "count"))>>
          ELSE <<"**Showing:** " \o String(Get(data, "count"))>>)
      \o <<"**More available:** Yes (next page: "
                    \o String(Get(data, "nextPage")) \o ")">>
      \o <<"">>

\* The heading, the summary line and the has-more line of a page.
PageHead(data, entityType) ==
    <<"## " \o capitalize(entityType), "">>
      \o (IF Get(data, "total") # Undef
          THEN <<"**Total:** " \o String(Get(data, "total"))
                    \o " | **Showing:** " \o String(Get(data, "count"))>>
          ELSE <<"**Showing:** " \o String(Get(data, "count"))>>)
      \o (IF Falsy(Get(data, "hasMore")) THEN << >>
          ELSE <<"**More available:** Yes (next page: "
                    \o String(Get(data, "nextPage")) \o ")">>)
      \o <<"">>

\* The switch over the resource-family tag.
PageTable(entityType, list) ==
    CASE entityType = "droplets" -> formatDropletsTable(list)
      [] entityType = "volumes" -> formatVolumesTable(list)
      [] entityType = "firewalls" -> formatFirewallsTable(list)
      [] entityType = "load_balancers" -> formatLoadBalancersTable(list)
      [] entityType = "vpcs" -> formatVPCsTable(list)
      [] entityType = "kubernetes_clusters" -> formatKubernetesClustersTable(list)
      [] entityType = "databases" -> formatDatabasesTable(list)
      [] entityType = "apps" -> formatAppsTable(list)
      [] OTHER -> formatGenericTable(list)

\* formatPaginatedAsMarkdown pushing the table whatever the number of items.
PageTextAlwaysTable(head, list, table) ==
    IF table.threw THEN table
    ELSE Returned(head \o table.value)

\* The lines of a page: the notice for no items, else the table, which is
\* rendered only then.
PageText(head, list, table) ==
    IF Len(list) = 0 THEN Returned(head \o <<"_No items found._">>)
    ELSE IF table.threw THEN table
    ELSE Returned(head \o table.value)

formatPaginatedAsMarkdown(data, entityType) ==
    PageText(PageHead(data, entityType), Get(data, "items").v,
             PageTable(entityType, Get(data, "items").v))

formatAsMarkdown(data, entityType) ==
    IF isPaginatedResponse(data) THEN formatPaginatedAsMarkdown(data, entityType)
    ELSE IF data.t = "array" THEN formatArrayAsMarkdown(data, entityType)
    ELSE IF data.t = "object" THEN formatObjectAsMarkdown(data, entityType)
    ELSE Returned(<<String(data)>>)

\* A formatter that reversed the items of a page in place while rendering.
DataAfterFormatResponseReversed(data, format, entityType) ==
    IF format = "markdown" /\ isPaginatedResponse(data)
    THEN [data EXCEPT !.f["items"] =
            Arr([i \in 1..Len(@.v) |-> @.v[Len(@.v) + 1 - i]])]
    ELSE data

\* The value data refers to once formatResponse has returned or thrown: the
\* formatters read it (member reads, Object.keys, Object.entries, slice,
\* find, map, join, JSON.stringify) and push to arrays of their own only.
DataAfterFormatResponse(data, format, entityType) == data

\* The response around a rendered text, or what the rendering threw.
TextResponse(text) ==
    IF text.threw THEN text
    ELSE Returned([content |-> <<[type |-> "text", text |-> text.value]>>])

\* formatResponse rendering markdown for every format but 'json'.
formatResponseUnlessJson(data, format, entityType) ==
    IF format # "json"
    THEN TextResponse(formatAsMarkdown(data, entityType))
    ELSE Returned([content |-> <<[type |-> "text", text |-> JSONstringify(data)]>>])

formatResponse(data, format, entityType) ==
    IF format = "markdown"
    THEN TextResponse(formatAsMarkdown(data, entityType))
    ELSE Returned([content |-> <<[type |-> "text", text |-> JSONstringify(data)]>>])

-----------------------------------------------------------------------------
(* The tool handlers (src/src/tools, src/unnamed/part_001) over the client *)
(* operations they call, each as a function of what fetch produced.        *)

\* What fetch produced: a response, or a rejection below the HTTP layer.
Resolved(resp) == [rejected |-> FALSE, resp |-> resp]
Rejected == [rejected |-> TRUE]

\* JSON.parse(text) as the value the formatters see.
JSONvalue(text) ==
    CASE text = BodyNull -> Null
      [] text = BodyEmptyObject -> Obj(<< >>, << >>)
      [] text = BodyMessage -> Obj(<<"message">>, [message |-> Str("internal error")])
      [] text = BodyId -> Obj(<<"id">>, [id |-> Str("not_found")])
      [] text = BodyIdMessage ->
            Obj(<<"id", "message">>,
                [id |-> Str("not_found"), message |-> Str("The resource was not found.")])
      [] text = BodyIdEmptyMessage ->
            Obj(<<"id", "message">>, [id |-> Str("unprocessable"), message |-> Str("")])
      [] text = BodyAccount ->
            Obj(<<"account">>,
                [account |-> Obj(<<"status">>, [status |-> Str("active")])])
      [] text = BodyDroplets ->
            Obj(<<"droplets", "links", "meta">>,
                [droplets |-> Arr(<<Item(1)>>),
                 links |-> Obj(<<"pages">>,
                               [pages |-> Obj(<<"next">>, [next |-> Str(LinkPage3)])]),
                 meta |-> Obj(<<"total">>, [total |-> Num(50)])])
      [] text = BodyDropletsNull -> Obj(<<"droplets">>, [droplets |-> Arr(<<Null>>)])
      [] text = BodyNodePools ->
            Obj(<<"node_pools">>, [node_pools |-> Arr(<<Item(2)>>)])
      [] text = BodyBalance ->
            Obj(<<"account_balance">>, [account_balance |-> Str("0.00")])
      [] OTHER -> Undef

\* What request() yielded, as the handlers' client sees it: the decoded
\* value of the body, or the error.
ValueOf(r, body) ==
    IF r.threw THEN Thrown(r.error)
    ELSE IF r.payload.form = "json" THEN Returned(JSONvalue(body))
    ELSE IF r.payload.form = "text" THEN Returned(Str(body))
    ELSE Returned(Undef)

requestValue(fetched) ==
    IF fetched.rejected THEN Thrown(TypeError("fetch failed"))
    ELSE ValueOf(request(fetched.resp), fetched.resp.body)

\* r.key of what request() returned; reading it from undefined or null
\* throws.
MemberOf(r, key) ==
    IF r.threw THEN r
    ELSE IF Nullish(r.value) THEN Thrown(TypeError("Cannot read properties of undefined"))
    ELSE Returned(Get(r.value, key))

\* parsePaginatedResponse(response, key) of what request() returned.
PageOfResponse(r, key) == IF r.threw THEN r ELSE parsePaginatedResponse(r.value, key)

listDroplets(fetched) == PageOfResponse(requestValue(fetched), "droplets")

listDropletNeighbors(fetched) == MemberOf(requestValue(fetched), "droplets")

listKubernetesNodePools(fetched) == MemberOf(requestValue(fetched), "node_pools")

getBalance(fetched) == requestValue(fetched)

\* The value testConnection() resolves with for the outcome r of getAccount().
ConnectionOf(r) ==
    IF r.threw
    THEN Returned(Obj(<<"connected", "message">>,
             [connected |-> Bool(FALSE),
              message |-> Str(IF InstanceofError(r.error) THEN r.error.message
                              ELSE "Connection failed")]))
    ELSE Returned(Obj(<<"connected", "message">>,
             [connected |-> Bool(TRUE),
              message |-> Str("Successfully connected to DigitalOcean API")]))

\* testConnection(): getAccount() inside its own try/catch.
testConnection(fetched) == ConnectionOf(MemberOf(requestValue(fetched), "account"))

HandlerTools ==
    {"digitalocean_list_droplets", "digitalocean_list_droplet_neighbors",
     "digitalocean_list_kubernetes_node_pools", "digitalocean_get_balance",
     "digitalocean_test_connection"}

\* The page a handler builds by hand from the list its client call returned.
PageOfList(list) == IF list.threw THEN list ELSE HandBuiltPage(list.value)

\* The first statements of the try block of the handler of tool t: the
\* client call, and the page built from an unpaginated list.
HandlerData(t, fetched) ==
    CASE t = "digitalocean_list_droplets" -> listDroplets(fetched)
      [] t = "digitalocean_list_droplet_neighbors" ->
            PageOfList(listDropletNeighbors(fetched))
      [] t = "digitalocean_list_kubernetes_node_pools" ->
            PageOfList(listKubernetesNodePools(fetched))
      [] t = "digitalocean_get_balance" -> getBalance(fetched)
      [] t = "digitalocean_test_connection" -> testConnection(fetched)

\* The tag the handler of tool t passes to formatResponse.
HandlerTag(t) ==
    IF t = "digitalocean_list_kubernetes_node_pools" THEN "node_pools" ELSE "droplets"

\* The return statement of the try block: formatResponse(data, format, tag),
\* or the inline JSON.stringify of the billing and connection handlers.
HandlerReturn(t, data, format) ==
    IF data.threw THEN data
    ELSE IF t \in {"digitalocean_get_balance", "digitalocean_test_connection"}
    THEN Returned([content |-> <<[type |-> "text", text |-> JSONstringify(data.value)]>>])
    ELSE formatResponse(data.value, format, HandlerTag(t))

\* The try block of the handler of tool t: the ToolResponse it returns, or
\* what is thrown in it.
HandlerBody(t, format, fetched) == HandlerReturn(t, HandlerData(t, fetched), format)

\* The catch block of the handler of tool t: formatError(error) for every
\* tool but digitalocean_test_connection, which builds its response inline.
HandlerCatch(t, body) ==
    IF ~body.threw THEN body
    ELSE IF t = "digitalocean_test_connection"
    THEN Returned([content |-> <<[type |-> "text",
                      text |-> <<"Connection failed: "
                          \o (IF InstanceofError(body.error) THEN body.error.message
                              ELSE "Unknown error")>>]>>,
                   isError |-> TRUE])
    ELSE Returned(formatError(body.error))

\* The handler of tool t called with the given format.
Handler(t, format, fetched) == HandlerCatch(t, HandlerBody(t, format, fetched))

-----------------------------------------------------------------------------
(* The call request() hands to fetch (src/unnamed/part_000, lines 381-390): *)
(* an object is the function from its keys to its members.                 *)

\* { ...a, ...b }: the members of b, and those of a that b does not have.
Spread(a, b) == b @@ a

\* The object getAuthHeaders() returns.
AuthHeadersObject(c) ==
    ("Authorization" :> getAuthHeaders(c).Authorization)
        @@ ("Content-Type" :> getAuthHeaders(c).ContentType)

\* options.headers || {}
HeadersOrEmpty(options) ==
    IF "headers" \in DOMAIN options THEN options.headers ELSE << >>

\* request() passing the caller's headers, when there are any, in the place
\* of the default ones.
fetchArgumentsCallerOnly(c, endpoint, options) ==
    [url |-> c.baseUrl \o endpoint,
     init |-> Spread(options,
                     [headers |-> IF HeadersOrEmpty(options) = << >>
                                  THEN AuthHeadersObject(c)
                                  ELSE HeadersOrEmpty(options)])]

\* The url and the init object of fetch(url, { ...options, headers }).
fetchArguments(c, endpoint, options) ==
    [url |-> c.baseUrl \o endpoint,
     init |-> Spread(options,
                     [headers |-> Spread(AuthHeadersObject(c), HeadersOrEmpty(options))])]

\* request(endpoint, options) up to its call of fetch, on the client built
\* from the credentials of an inbound request: the arguments of the call, or
\* the error getAuthHeaders() throws.
requestFetch(inboundRequest, endpoint, options) ==
    LET c == createDigitalOceanClient(parseTenantCredentials(inboundRequest))
    IN  IF getAuthHeadersThrows(c)
        THEN Thrown(AuthenticationError(
                 "No token provided. Include X-DigitalOcean-Token header."))
        ELSE Returned(fetchArguments(c, endpoint, options))

\* Headers a caller of request() supplies.
CallerHeaders ==
    {<< >>,
     "Content-Type" :> "text/plain",
     "Authorization" :> "Bearer other",
     "Accept" :> "text/csv",
     ("Content-Type" :> "text/plain") @@ ("Accept" :> "text/csv")}

\* The options of the calls of request(): none, a method, a method and a
\* body, and each of these with headers.
RequestOptions ==
    {<< >>, [method |-> "DELETE"], [method |-> "POST", body |-> "{}"]}
        \cup {[headers |-> h] : h \in CallerHeaders}
        \cup {[method |-> "POST", body |-> "{}", headers |-> h] : h \in CallerHeaders}

RequestEndpoints == {"/account", "/droplets?per_page=20&page=1"}

-----------------------------------------------------------------------------
(* The argument schema of the list tools (src/src/tools/droplets.ts, lines *)
(* 21-26) and the tools/call of digitalocean_list_droplets.  The schema is *)
(* checked by zod before the handler is called; zod is not pinned by the   *)
(* sources, and its major versions differ on a default inside optional().  *)

ZodVersions == {3, 4}

\* The number n + 0.5.
NumHalf(n) == [t |-> "number", n |-> n, half |-> TRUE]

\* z.number().int() accepts v.
ZodNumberInt(v) == v.t = "number" /\ "half" \notin DOMAIN v

Parsed(v) == [success |-> TRUE, data |-> v]
Invalid == [success |-> FALSE]

\* z.number().int().min(1).max(200).default(20).optional(): optional() is
\* outermost and answers undefined itself in zod 3, and hands it to the
\* default in zod 4.
perPageSchema(zod, v) ==
    IF v = Undef THEN Parsed(IF zod = 3 THEN Undef ELSE Num(20))
    ELSE IF ZodNumberInt(v) /\ v.n >= 1 /\ v.n <= 200 THEN Parsed(v)
    ELSE Invalid

\* z.number().int().min(1).optional()
pageSchema(v) ==
    IF v = Undef THEN Parsed(Undef)
    ELSE IF ZodNumberInt(v) /\ v.n >= 1 THEN Parsed(v)
    ELSE Invalid

\* The handler of digitalocean_list_droplets on the parsed arguments: the
\* endpoint listDroplets requests and the handler's response.
listDropletsHandler(per_page, page, tag_name, fetched) ==
    [handled |-> TRUE,
     endpoint |-> <<"/droplets">>
                     \o buildQueryString(<< <<"per_page", per_page>>, <<"page", page>>,
                                            <<"tag_name", tag_name>> >>),
     response |-> Handler("digitalocean_list_droplets", "json", fetched)]

\* A tools/call of digitalocean_list_droplets: arguments that fail the
\* schema are answered without the handler being called.
callListDroplets(zod, args, fetched) ==
    IF perPageSchema(zod, args.per_page).success /\ pageSchema(args.page).success
    THEN listDropletsHandler(perPageSchema(zod, args.per_page).data,
                             pageSchema(args.page).data, args.tag_name, fetched)
    ELSE [handled |-> FALSE]

\* Values a caller sends for per_page and page; undefined is an omitted one.
PerPageArgs ==
    {Undef, Null, NumNaN, Str("20"), Num(-1), Num(0), Num(1), Num(20), Num(200),
     Num(201), NumHalf(2)}

PageArgs == {Undef, Null, Str("2"), Num(-1), Num(0), Num(1), Num(2), NumHalf(1)}

ListDropletsArgs ==
    {[per_page |-> pp, page |-> pg, tag_name |-> tn] :
        pp \in PerPageArgs, pg \in PageArgs, tn \in {Undef, Str("web")}}

\* The provider's answer to the list call.
DropletsFetched ==
    Resolved([status |-> 200, retryAfter |-> None,
              contentType |-> Some(<<"application/json">>), body |-> BodyDroplets])

-----------------------------------------------------------------------------
(* The helper functions on their own: the initial state draws a function   *)
(* and its arguments, the one step applies it.                             *)

ApplyParsePaginatedResponse ==
    /\ fn = "parsePaginatedResponse" /\ ret = Pending
    /\ ret' = parsePaginatedResponse(arg[1], arg[2])
    /\ UNCHANGED <<pc, inbound, credentials, server, client, nextObj, workerResp,
                   tool, op, invoked, outbound, response, outcome, toolResp,
                   fn, arg>>

ApplyHandBuiltPage ==
    /\ fn = "HandBuiltPage" /\ ret = Pending
    /\ ret' = HandBuiltPage(arg[1])
    /\ UNCHANGED <<pc, inbound, credentials, server, client, nextObj, workerResp,
                   tool, op, invoked, outbound, response, outcome, toolResp,
                   fn, arg>>

ApplyBuildQueryString ==
    /\ fn = "buildQueryString" /\ ret = Pending
    /\ ret' = Returned(buildQueryString(arg[1]))
    /\ UNCHANGED <<pc, inbound, credentials, server, client, nextObj, workerResp,
                   tool, op, invoked, outbound, response, outcome, toolResp,
                   fn, arg>>

ApplyFormatError ==
    /\ fn = "formatError" /\ ret = Pending
    /\ ret' = Returned(formatError(arg[1]))
    /\ UNCHANGED <<pc, inbound, credentials, server, client, nextObj, workerResp,
                   tool, op, invoked, outbound, response, outcome, toolResp,
                   fn, arg>>

ApplyFormatResponse ==
    /\ fn = "formatResponse" /\ ret = Pending
    /\ ret' = formatResponse(arg[1], arg[2], arg[3])
    /\ arg' = <<DataAfterFormatResponse(arg[1], arg[2], arg[3]), arg[2], arg[3]>>
    /\ UNCHANGED <<pc, inbound, credentials, server, client, nextObj, workerResp,
                   tool, op, invoked, outbound, response, outcome, toolResp, fn>>

\* request() is called on a client and reaches fetch or throws.
ApplyRequestFetch ==
    /\ fn = "request" /\ ret = Pending
    /\ ret' = requestFetch(arg[1], arg[2], arg[3])
    /\ UNCHANGED <<pc, inbound, credentials, server, client, nextObj, workerResp,
                   tool, op, invoked, outbound, response, outcome, toolResp,
                   fn, arg>>

\* A tools/call message for digitalocean_list_droplets is validated and, if
\* valid, handled.
ApplyCallListDroplets ==
    /\ fn = "callListDroplets" /\ ret = Pending
    /\ ret' = callListDroplets(arg[1], arg[2], arg[3])
    /\ UNCHANGED <<pc, inbound, credentials, server, client, nextObj, workerResp,
                   tool, op, invoked, outbound, response, outcome, toolResp,
                   fn, arg>>

\* A tools/call message runs the handler of tool arg[1] to its end.
ApplyHandler ==
    /\ fn = "handler" /\ ret = Pending
    /\ ret' = Handler(arg[1], arg[2], arg[3])
    /\ UNCHANGED <<pc, inbound, credentials, server, client, nextObj, workerResp,
                   tool, op, invoked, outbound, response, outcome, toolResp,
                   fn, arg>>

\* The values a handler's try block can throw: the classified errors (one
\* of them marked retryable by its caller), runtime errors, an error object
\* of another class that carries a retryable flag, and values that are not
\* error objects.
ThrownValues ==
    {AuthenticationError("Authentication failed. Check your API token."),
     RateLimitError("Rate limit exceeded", <<60>>),
     DigitalOceanApiError("API error: 500", 500),
     [DigitalOceanApiError("API error: 503", 503) EXCEPT !.retryable = TRUE],
     SyntaxError,
     TypeError("fetch failed"),
     [kind |-> "Error", message |-> "timeout", retryable |-> TRUE],
     Str("boom"), Num(42), Null, Undef,
     Obj(<<"retryable">>, [retryable |-> Bool(TRUE)])}

DropletEntity ==
    Obj(<<"id", "name", "status", "networks", "region", "size_slug", "tags">>,
        [id |-> Num(1), name |-> Str("web"), status |-> Str("active"),
         networks |->
            Obj(<<"v4">>,
                [v4 |-> Arr(<<Obj(<<"ip_address", "type">>,
                                  [ip_address |-> Str("10.0.0.2"),
                                   type |-> Str("private")]),
                              Obj(<<"ip_address", "type">>,
                                  [ip_address |-> Str("203.0.113.5"),
                                   type |-> Str("public")])>>)]),
         region |-> Obj(<<"slug">>, [slug |-> Str("nyc3")]),
         size_slug |-> Str("s-1vcpu-1gb"),
         tags |-> Null])

\* Items of a family without a table of its own: a text longer than fifty
\* characters, a nested value, a null and a boolean; then an item that lacks
\* most keys of the first and has one the first lacks.
NoteItem ==
    Obj(<<"id", "note", "nested", "none", "on">>,
        [id |-> Num(7), note |-> Str(LongText), nested |-> Arr(<<Num(1)>>),
         none |-> Null, on |-> Bool(TRUE)])

ShortItem == Obj(<<"extra", "id">>, [extra |-> Str("x"), id |-> Num(8)])

GenericList == Arr(<<NoteItem, ShortItem>>)

\* The tags with a table renderer of their own.
RegisteredTags ==
    {"droplets", "volumes", "firewalls", "load_balancers", "vpcs",
     "kubernetes_clusters", "databases", "apps"}

\* One entity of each family with a table of its own, every field that the
\* table reads being present.
Entity(entityType) ==
    CASE entityType = "droplets" -> DropletEntity
      [] entityType = "volumes" ->
            Obj(<<"id", "name", "size_gigabytes", "region", "droplet_ids">>,
                [id |-> Str("vol-1"), name |-> Str("data"), size_gigabytes |-> Num(100),
                 region |-> Obj(<<"slug">>, [slug |-> Str("nyc3")]),
                 droplet_ids |-> Arr(<<Num(1), Num(2)>>)])
      [] entityType = "firewalls" ->
            Obj(<<"id", "name", "status", "droplet_ids", "inbound_rules",
                  "outbound_rules">>,
                [id |-> Str("fw-1"), name |-> Str("edge"), status |-> Str("succeeded"),
                 droplet_ids |-> Arr(<<Num(1)>>),
                 inbound_rules |-> Arr(<<Obj(<<"protocol">>, [protocol |-> Str("tcp")])>>),
                 outbound_rules |-> Arr(<< >>)])
      [] entityType = "load_balancers" ->
            Obj(<<"id", "name", "ip", "status", "region", "droplet_ids">>,
                [id |-> Str("lb-1"), name |-> Str("front"), ip |-> Str("203.0.113.9"),
                 status |-> Str("active"),
                 region |-> Obj(<<"slug">>, [slug |-> Str("nyc3")]),
                 droplet_ids |-> Arr(<<Num(1), Num(2)>>)])
      [] entityType = "vpcs" ->
            Obj(<<"id", "name", "region", "ip_range", "default">>,
                [id |-> Str("vpc-1"), name |-> Str("main"), region |-> Str("nyc3"),
                 ip_range |-> Str("10.10.0.0/20"), default |-> Bool(TRUE)])
      [] entityType = "kubernetes_clusters" ->
            Obj(<<"id", "name", "region", "version", "status", "node_pools">>,
                [id |-> Str("k8s-1"), name |-> Str("prod"), region |-> Str("nyc3"),
                 version |-> Str("1.29"),
                 status |-> Obj(<<"state">>, [state |-> Str("running")]),
                 node_pools |-> Arr(<<Obj(<<"name">>, [name |-> Str("pool")])>>)])
      [] entityType = "databases" ->
            Obj(<<"id", "name", "engine", "version", "size", "region", "status">>,
                [id |-> Str("db-1"), name |-> Str("store"), engine |-> Str("pg"),
                 version |-> Str("16"), size |-> Str("db-s-1vcpu-1gb"),
                 region |-> Str("nyc3"), status |-> Str("online")])
      [] entityType = "apps" ->
            Obj(<<"id", "spec", "region", "tier_slug", "live_url">>,
                [id |-> Str("app-1"), spec |-> Obj(<<"name">>, [name |-> Str("site")]),
                 region |-> Obj(<<"slug">>, [slug |-> Str("ams")]),
                 tier_slug |-> Str("basic"), live_url |-> Str("https://site.example")])

\* The entity without the fields of gone.
Lacking(entity, gone) ==
    Obj(SelectSeq(entity.keys, LAMBDA k : k \notin gone),
        [k \in (DOMAIN entity.f) \ gone |-> entity.f[k]])

\* For each family with a table of its own, the page of one entity lacking
\* any subset of its fields, rendered in markdown under the family's tag.
SparseCalls ==
    UNION {{<<"formatResponse",
              <<HandBuiltPage(Arr(<<Lacking(Entity(t), gone)>>)).value, "markdown", t>>>> :
                gone \in SUBSET (DOMAIN Entity(t).f)} : t \in RegisteredTags}

\* The envelopes whose pages are handed to the formatter.
PageEnvelopes ==
    {ObjOf(<<"droplets", "links", "meta">>, [droplets |-> l, links |-> k, meta |-> m]) :
        l \in {Undef, Arr(<<DropletEntity>>), Arr(<<Null>>)} \cup ItemLists,
        k \in {Undef} \cup {Obj(<<"pages">>, [pages |-> Obj(<<"next">>, [next |-> Str(n)])]) :
                              n \in {LinkPage3, LinkPageAbc, LinkNoPage}},
        m \in {Undef, Obj(<<"total">>, [total |-> Num(50)])}}

\* Results handed to formatResponse: single entities, bare arrays, pages,
\* scalars, and undefined (the result of a call that returns nothing).
DataValues ==
    {DropletEntity,
     Obj(<<"account_balance">>, [account_balance |-> Str("0.00")]),
     Obj(<<"success", "message">>,
         [success |-> Bool(TRUE), message |-> Str(LongText)])}
        \cup {Arr(<< >>), Arr(<<Item(1), Item(2)>>), Arr(<<DropletEntity>>),
              Arr(<<Null>>), GenericList}
        \cup {parsePaginatedResponse(e, "droplets").value : e \in PageEnvelopes}
        \cup {HandBuiltPage(l).value : l \in ItemLists \cup {GenericList}}
        \cup {Str("ok"), Num(3), Bool(TRUE), Null, Undef}

\* 'json' and 'markdown' are the formats a handler's schema lets through;
\* the others reach formatResponse only from another caller.
Formats == {"json", "markdown", "text", "Markdown"}

EntityTypes ==
    {"droplets", "volumes", "firewalls", "load_balancers", "vpcs",
     "kubernetes_clusters", "databases", "apps", "node_pools", "droplet"}

\* The responses of the provider to the handlers' calls.
ToolHttpResponses ==
    {[status |-> st, retryAfter |-> None, contentType |-> ct, body |-> b] :
        st \in {200, 204, 401, 404, 429, 500},
        ct \in {Some(<<"application/json">>), Some(<<"text/plain">>)},
        b \in {BodyEmptyObject, BodyHtml, BodyNull, BodyMessage, BodyAccount,
               BodyDroplets, BodyDropletsNull, BodyNodePools, BodyBalance}}

Fetches == {Rejected} \cup {Resolved(resp) : resp \in ToolHttpResponses}

\* Every helper function with every argument list it is applied to.
PureCalls ==
    {<<"parsePaginatedResponse", <<e, k>>>> : e \in Envelopes, k \in ListKeys}
        \cup {<<"HandBuiltPage", <<l>>>> : l \in ListFields}
        \cup {<<"buildQueryString", <<m>>>> : m \in ParamMaps}
        \cup {<<"formatError", <<e>>>> : e \in ThrownValues}
        \cup {<<"formatResponse", <<d, f, t>>>> :
                d \in DataValues, f \in Formats, t \in EntityTypes}
        \cup SparseCalls
        \cup {<<"callListDroplets", <<z, a, DropletsFetched>>>> :
                z \in ZodVersions, a \in ListDropletsArgs}
        \cup {<<"request", <<q, e, o>>>> :
                q \in McpRequests, e \in RequestEndpoints, o \in RequestOptions}
        \cup {<<"handler", <<t, f, h>>>> :
                t \in HandlerTools, f \in {"json", "markdown"}, h \in Fetches}

InitPure ==
    /\ \E call \in PureCalls : fn = call[1] /\ arg = call[2]
    /\ ret = Pending
    /\ pc = [r \in Req |-> "idle"]
    /\ inbound = [r \in Req |-> None]
    /\ credentials = [r \in Req |-> None]
    /\ server = [r \in Req |-> None]
    /\ client = [r \in Req |-> None]
    /\ nextObj = 1
    /\ workerResp = [r \in Req |-> None]
    /\ tool = [r \in Req |-> None]
    /\ op = [r \in Req |-> None]
    /\ invoked = [r \in Req |-> 0]
    /\ outbound = [r \in Req |-> << >>]
    /\ response = [r \in Req |-> None]
    /\ outcome = [r \in Req |-> None]
    /\ toolResp = [r \in Req |-> None]

NextPure ==
    \/ ApplyParsePaginatedResponse
    \/ ApplyHandBuiltPage
    \/ ApplyBuildQueryString
    \/ ApplyFormatError
    \/ ApplyFormatResponse
    \/ ApplyRequestFetch
    \/ ApplyCallListDroplets
    \/ ApplyHandler

SpecPure == InitPure /\ [][NextPure]_vars

-----------------------------------------------------------------------------
(* Properties.                                                             *)

\* The operations that return or throw exactly what request() does.
RequestOps == {"getBalance", "getInvoiceCSV"}

\* Request r invoked an operation of RequestOps and fetch resolved.
Answered(r) ==
    /\ op[r] # None
    /\ op[r][1] \in RequestOps
    /\ response[r] # None

MissingToken(r) ==
    /\ inbound[r] # None
    /\ inbound[r][1].method = "POST"
    /\ inbound[r][1].pathname = "/mcp"
    /\ ~Truthy(inbound[r][1].token)

\* C1: a POST /mcp request whose X-DigitalOcean-Token header is absent or
\* empty is answered 401 Unauthorized at once: no server and no client is
\* built for it, no tool handler is invoked and no outbound call is made.
C1_MissingTokenFailsFast ==
    \A r \in Req :
        MissingToken(r) =>
            /\ pc[r] = "done"
            /\ workerResp[r] = Some([status |-> 401, kind |-> "Unauthorized"])
            /\ server[r] = None
            /\ client[r] = None
            /\ tool[r] = None
            /\ invoked[r] = 0
            /\ outbound[r] = << >>

\* A request without the header was refused while another tenant's request
\* has an outbound call in flight.
C1_Witness ==
    \E r, p \in Req :
        /\ MissingToken(r)
        /\ inbound[r][1].token = None
        /\ workerResp[r] # None
        /\ pc[p] = "awaitFetch"

\* C2: every client operation invoked on a client with an empty token fails
\* with an Authentication error, and no outbound call is made.
C2_EmptyTokenAuthError ==
    \A r \in Req :
        (op[r] # None /\ client[r][1].credentials.token = "") =>
            /\ pc[r] = "done"
            /\ outbound[r] = << >>
            /\ outcome[r][1].threw
            /\ outcome[r][1].error.kind = "Authentication"

\* The token and base URL the inbound request of r carries.
InboundToken(r) == inbound[r][1].token[1]
InboundBase(r) ==
    IF Truthy(inbound[r][1].baseUrl) THEN inbound[r][1].baseUrl[1] ELSE API_BASE_URL

\* C3: every outbound call carries the bearer token and the base URL of the
\* inbound request that triggered it, and no two requests share a
\* credentials object, a client or a server.
C3_TenantIsolation ==
    /\ \A r \in Req : \A i \in 1..Len(outbound[r]) :
          /\ outbound[r][i].headers.Authorization = "Bearer " \o InboundToken(r)
          /\ outbound[r][i].base = InboundBase(r)
    /\ \A r \in Req :
          server[r] # None =>
              /\ client[r] # None
              /\ server[r][1].client = client[r][1].id
              /\ client[r][1].credentials = credentials[r][1]
    /\ \A r, p \in Req :
          r # p =>
              /\ (credentials[r] # None /\ credentials[p] # None
                    => credentials[r][1].id # credentials[p][1].id)
              /\ (client[r] # None /\ client[p] # None
                    => client[r][1].id # client[p][1].id)
              /\ (server[r] # None /\ server[p] # None
                    => server[r][1].id # server[p][1].id)

\* Two requests of different tenants have their outbound calls in flight
\* together.
C3_Witness ==
    \E r, p \in Req :
        /\ pc[r] = "awaitFetch"
        /\ pc[p] = "awaitFetch"
        /\ InboundToken(r) = "tokA"
        /\ InboundToken(p) = "tokB"
        /\ InboundBase(r) # InboundBase(p)

\* A header value made of decimal digits only.
Numeric(h) ==
    /\ h # None
    /\ h[1] # << >>
    /\ \A i \in 1..Len(h[1]) : h[1][i] \in Digit

\* C4: a 429 response makes request() fail with a RateLimit error whose
\* retryAfterSeconds is the Retry-After value when that header is present
\* and numeric, and 60 in every other case.
C4_RetryAfterOrSixty ==
    \A r \in Req :
        (Answered(r) /\ response[r][1].status = 429) =>
            /\ outcome[r][1].threw
            /\ outcome[r][1].error.kind = "RateLimit"
            /\ outcome[r][1].error.retryAfterSeconds =
                 IF Numeric(response[r][1].retryAfter)
                 THEN <<ParseDigits(response[r][1].retryAfter[1], 0)>>
                 ELSE <<60>>

\* C5: a 401 or 403 response makes request() fail with the Authentication
\* error of fixed message, whatever the body and the headers, and the body
\* is not read.
C5_AuthErrorFixed ==
    \A r \in Req :
        (Answered(r) /\ response[r][1].status \in {401, 403}) =>
            outcome[r][1] =
                [threw |-> TRUE,
                 error |-> [kind |-> "Authentication",
                            message |-> "Authentication failed. Check your API token.",
                            retryable |-> FALSE],
                 bodyUsed |-> "none"]

\* A 403 whose body carries a message and whose headers carry Retry-After.
C5_Witness ==
    \E r \in Req :
        /\ Answered(r)
        /\ response[r][1].status = 403
        /\ response[r][1].body = BodyIdMessage
        /\ response[r][1].retryAfter # None
        /\ outcome[r] # None

\* The members of the body when it parses as a JSON object, none otherwise.
BodyMembers(resp) ==
    IF JSONparse(resp.body) # None /\ JSONparse(resp.body)[1].type = "object"
    THEN JSONparse(resp.body)[1].members
    ELSE << >>

GenericStatus(status) == ~Ok(status) /\ status \notin {429, 401, 403}

\* C6 as stated: for a non-2xx status other than 429, 401 and 403, request()
\* fails with a Generic error of that status whose message is the body's
\* message member if present, else its id member if present, else
\* "API error: <status>".
C6_MessageIfPresent ==
    \A r \in Req :
        (Answered(r) /\ GenericStatus(response[r][1].status)) =>
            LET m == BodyMembers(response[r][1])
            IN  /\ outcome[r][1].threw
                /\ outcome[r][1].error.kind = "Generic"
                /\ outcome[r][1].error.statusCode = response[r][1].status
                /\ outcome[r][1].error.message =
                     IF "message" \in DOMAIN m THEN m.message
                     ELSE IF "id" \in DOMAIN m THEN m.id
                     ELSE "API error: " \o ToString(response[r][1].status)

\* C6 amended: the message is the body's message member if present and not
\* empty, else its id member if present and not empty, else
\* "API error: <status>"; a body that does not parse gives the latter.
C6_MessageIfTruthy ==
    \A r \in Req :
        (Answered(r) /\ GenericStatus(response[r][1].status)) =>
            LET m == BodyMembers(response[r][1])
            IN  /\ outcome[r][1].threw
                /\ outcome[r][1].error.kind = "Generic"
                /\ outcome[r][1].error.statusCode = response[r][1].status
                /\ outcome[r][1].error.message =
                     IF "message" \in DOMAIN m /\ m.message # "" THEN m.message
                     ELSE IF "id" \in DOMAIN m /\ m.id # "" THEN m.id
                     ELSE "API error: " \o ToString(response[r][1].status)

\* A 404 whose body carries both members, the id first.
C6_Witness ==
    \E r \in Req :
        /\ Answered(r)
        /\ response[r][1].status = 404
        /\ response[r][1].body = BodyIdMessage
        /\ outcome[r][1].threw
        /\ outcome[r][1].error.message = "The resource was not found."

DeclaresJson(resp) ==
    resp.contentType # None /\ Includes(resp.contentType[1], "application/json")

Classified == {"RateLimit", "Authentication", "Generic"}

FirstMatch(resp) ==
    CASE resp.status = 429 -> "RateLimit"
      [] resp.status # 429 /\ resp.status \in {401, 403} -> "Authentication"
      [] resp.status \notin {429, 401, 403} /\ ~Ok(resp.status) -> "Generic"
      [] resp.status = 204 -> "undefined"
      [] Ok(resp.status) /\ resp.status # 204 /\ DeclaresJson(resp) ->
            IF JSONparse(resp.body) = None THEN "SyntaxError" ELSE "json"
      [] Ok(resp.status) /\ resp.status # 204 /\ ~DeclaresJson(resp) -> "text"

\* What the call of request r ended with.
Ending(r) ==
    IF outcome[r][1].threw
    THEN outcome[r][1].error.kind
    ELSE outcome[r][1].payload.form

C9_Non2xxNeverSucceeds ==
    \A r \in Req :
        (op[r] # None /\ response[r] # None /\ ~Ok(response[r][1].status)) =>
            /\ outcome[r][1].threw
            /\ outcome[r][1].error.kind \in Classified

\* C10: an invocation issues at most one outbound call, none after a
\* response or a transport failure, and a tool handler invokes at most one
\* client operation.
C10_AtMostOneCall ==
    \A r \in Req :
        /\ invoked[r] <= 1
        /\ Len(outbound[r]) <= invoked[r]
        /\ (response[r] # None \/ outcome[r] # None) => pc[r] = "done"

\* A tool call answered 429 ended with the single call it had issued.
C10_Witness ==
    \E r \in Req :
        /\ tool[r] # None
        /\ response[r] # None
        /\ response[r][1].status = 429
        /\ pc[r] = "done"
        /\ Len(outbound[r]) = 1

-----------------------------------------------------------------------------
(* Properties of the handlers and of the helper functions, over SpecPure.  *)

\* The helper function f has been applied.
Applied(f) == fn = f /\ ret # Pending

\* The underlying HTTP call failed: fetch rejected, or request() threw one
\* of its errors for the response.
HttpFailed(fetched) == fetched.rejected \/ request(fetched.resp).threw

\* What the code inside the handler of tool t threw, if anything: in its
\* try block, or in the client operation that the try block calls.
ThrownInHandler(t, format, fetched) ==
    IF t = "digitalocean_test_connection"
    THEN MemberOf(requestValue(fetched), "account")
    ELSE HandlerBody(t, format, fetched)

\* C11: every tool handler returns a ToolResponse for every outcome of the
\* code inside it and throws nothing to the RPC boundary; whenever something
\* was thrown, the response is the one formatError builds from it.
C11_ThrownGoesThroughFormatError ==
    Applied("handler") =>
        /\ ~ret.threw
        /\ "content" \in DOMAIN ret.value
        /\ LET inner == ThrownInHandler(arg[1], arg[2], arg[3])
           IN  inner.threw => ret.value = formatError(inner.error)

\* C12: for every tool, digitalocean_test_connection included, a failed
\* HTTP call gives a response marked isError = true that carries the message
\* and the details of the error request() threw.
C12_FailedCallIsError ==
    (Applied("handler") /\ HttpFailed(arg[3])) =>
        /\ ~ret.threw
        /\ "isError" \in DOMAIN ret.value
        /\ ret.value.isError
        /\ ret.value = formatError(requestValue(arg[3]).error)

\* The message formatError puts under `error` for the thrown value e.
ErrorText(e) ==
    "Error: " \o (IF InstanceofError(e) THEN e.message ELSE String(e))
        \o (IF InstanceofDigitalOceanApiError(e) /\ e.retryable
            THEN " (retryable)" ELSE "")

\* C13: formatError(e) returns isError = true and one text block, the JSON
\* object of an `error` message and a `details` object; the message is
\* "Error: " followed by e.message for an error object and String(e)
\* otherwise, with " (retryable)" appended iff e is an API error whose
\* retryable flag is true; formatResponse never sets isError.
C13_ErrorResponseShape ==
    /\ Applied("formatError") =>
          LET r == ret.value
              text == r.content[1].text
          IN  /\ ~ret.threw
              /\ r.isError
              /\ Len(r.content) = 1
              /\ r.content[1].type = "text"
              /\ Len(text) >= 5
              /\ text[1] = "{"
              /\ text[2] = "  " \o Quote("error") \o ": " \o Quote(ErrorText(arg[1])) \o ","
              /\ text[3] = "  " \o Quote("details") \o ": {"
              /\ text[Len(text) - 1] = "  }"
              /\ text[Len(text)] = "}"
    /\ (Applied("formatResponse") /\ ~ret.threw) => "isError" \notin DOMAIN ret.value

\* A rate-limit error was formatted with the notice.
C13_Witness ==
    /\ Applied("formatError")
    /\ arg[1] = RateLimitError("Rate limit exceeded", <<60>>)
    /\ ret.value.isError
    /\ ret.value.content[1].text[2]
          = "  \"error\": \"Error: Rate limit exceeded (retryable)\","

\* C14: every page descriptor has count = length(items): every output of
\* parsePaginatedResponse, the named list field absent or not, and every
\* page a handler builds by hand from an unpaginated list.
C14_CountIsLength ==
    ((Applied("parsePaginatedResponse") \/ Applied("HandBuiltPage")) /\ ~ret.threw) =>
        /\ Get(ret.value, "items").t = "array"
        /\ Get(ret.value, "count") = Num(Len(Get(ret.value, "items").v))

\* An envelope that holds a list under another key gave an empty page.
C14_Witness ==
    /\ Applied("parsePaginatedResponse")
    /\ Get(arg[1], "droplets").t = "array"
    /\ Len(Get(arg[1], "droplets").v) = MaxItems
    /\ arg[2] = "volumes"
    /\ ~ret.threw
    /\ Get(ret.value, "items") = Arr(<< >>)
    /\ Get(ret.value, "count") = Num(0)

\* links.pages.next of an envelope.
NextOf(envelope) == GetOpt(GetOpt(Get(envelope, "links"), "pages"), "next")

\* links.pages.next is a non-empty string.
HasNext(envelope) == NextOf(envelope).t = "string" /\ NextOf(envelope).s # ""

\* C15: without a links.pages.next (no links, no pages, no next, or an
\* empty next) parsePaginatedResponse returns hasMore = false and no
\* nextPage; hasMore is true iff a non-empty next string is present.
C15_NoNextNoMore ==
    (Applied("parsePaginatedResponse") /\ ~ret.threw) =>
        /\ ~HasNext(arg[1]) =>
              /\ Get(ret.value, "hasMore") = Bool(FALSE)
              /\ Get(ret.value, "nextPage") = Undef
        /\ Get(ret.value, "hasMore") = Bool(HasNext(arg[1]))

\* An envelope with links.pages but an empty next gave hasMore = false.
C15_Witness ==
    /\ Applied("parsePaginatedResponse")
    /\ Get(arg[1], "links").t = "object"
    /\ NextOf(arg[1]) = Str("")
    /\ ~ret.threw
    /\ Get(ret.value, "hasMore") = Bool(FALSE)
    /\ Get(ret.value, "nextPage") = Undef

\* The value of the `page` parameter of a link, None when the link is not a
\* URL or has no such parameter.
PageOf(link) ==
    IF NewURLSearchParams(link) = None THEN None
    ELSE SearchParamsGet(NewURLSearchParams(link)[1], "page")

\* The characters are a decimal integer.
IsInteger(chars) == chars # << >> /\ \A i \in 1..Len(chars) : chars[i] \in Digit

RECURSIVE Decimal(_)
Decimal(chars) ==
    IF chars = << >> THEN 0
    ELSE 10 * Decimal(SubSeq(chars, 1, Len(chars) - 1)) + DigitVal(chars[Len(chars)])

\* The next link of the envelope carries an integer page.
IntegerPage(envelope) ==
    /\ HasNext(envelope)
    /\ PageOf(NextOf(envelope).s) # None
    /\ IsInteger(PageOf(NextOf(envelope).s)[1])

\* C16: nextPage is present iff hasMore is true and the page parameter of
\* the next link is an integer, and is then that integer; a next link whose
\* page is not an integer gives hasMore = true and no nextPage.
C16_NextPageIffInteger ==
    (Applied("parsePaginatedResponse") /\ ~ret.threw) =>
        /\ Get(ret.value, "nextPage") # Undef
              <=> (Get(ret.value, "hasMore") = Bool(TRUE) /\ IntegerPage(arg[1]))
        /\ IntegerPage(arg[1]) =>
              Get(ret.value, "nextPage") = Num(Decimal(PageOf(NextOf(arg[1]).s)[1]))
        /\ (HasNext(arg[1]) /\ ~IntegerPage(arg[1])) =>
              /\ Get(ret.value, "hasMore") = Bool(TRUE)
              /\ Get(ret.value, "nextPage") = Undef

\* The envelope with its links.pages.next replaced by the link.
WithNext(envelope, link) ==
    LET links == Obj(<<"pages">>, [pages |-> Obj(<<"next">>, [next |-> Str(link)])])
    IN  Obj(envelope.keys,
            [k \in DOMAIN envelope.f |-> IF k = "links" THEN links ELSE envelope.f[k]])

\* C17: a next link that is not a valid URL, or a valid URL without a page
\* parameter, does not make parsePaginatedResponse throw: hasMore = true,
\* no nextPage, and items, count and total as for a well-formed link.
C17_MalformedNextDegrades ==
    (/\ Applied("parsePaginatedResponse")
     /\ HasNext(arg[1])
     /\ PageOf(NextOf(arg[1]).s) = None) =>
        LET good == parsePaginatedResponse(WithNext(arg[1], LinkPage3), arg[2])
        IN  /\ ~ret.threw
            /\ Get(ret.value, "hasMore") = Bool(TRUE)
            /\ Get(ret.value, "nextPage") = Undef
            /\ ~good.threw
            /\ Get(good.value, "nextPage") = Num(3)
            /\ \A k \in {"items", "count", "total"} :
                  Get(ret.value, k) = Get(good.value, k)

\* A page of MaxItems items with a total came with a next link that is not
\* a URL.
C17_Witness ==
    /\ Applied("parsePaginatedResponse")
    /\ NextOf(arg[1]) = Str(LinkGarbage)
    /\ ~ret.threw
    /\ Get(ret.value, "count") = Num(MaxItems)
    /\ Get(ret.value, "total") = Num(50)
    /\ Get(ret.value, "hasMore") = Bool(TRUE)
    /\ Get(ret.value, "nextPage") = Undef

\* A well-formed envelope: an object whose list field is absent or an
\* array, whose meta is absent or an object, and whose next link carries an
\* integer page.
WellFormed(envelope, key) ==
    /\ envelope.t = "object"
    /\ Get(envelope, key).t \in {"undefined", "array"}
    /\ Get(envelope, "meta").t \in {"undefined", "object"}
    /\ IntegerPage(envelope)

\* C18: for a well-formed envelope, items is envelope[key] in its order
\* (empty when absent), total is meta.total when meta is present and absent
\* otherwise, nextPage is the integer page of the next link; 3 items, total
\* 50 and page=3 give {count: 3, total: 50, hasMore: true, nextPage: 3}.
C18_PageFromEnvelope ==
    (Applied("parsePaginatedResponse") /\ WellFormed(arg[1], arg[2])) =>
        /\ ~ret.threw
        /\ Get(ret.value, "items")
              = (IF Get(arg[1], arg[2]) = Undef THEN Arr(<< >>) ELSE Get(arg[1], arg[2]))
        /\ Get(ret.value, "total")
              = (IF Get(arg[1], "meta") = Undef THEN Undef
                 ELSE Get(Get(arg[1], "meta"), "total"))
        /\ Get(ret.value, "nextPage") = Num(Decimal(PageOf(NextOf(arg[1]).s)[1]))
        /\ (/\ Get(arg[1], arg[2]) = Arr(<<Item(1), Item(2), Item(3)>>)
            /\ Get(arg[1], "meta") = Obj(<<"total">>, [total |-> Num(50)])
            /\ NextOf(arg[1]) = Str(LinkPage3)) =>
              /\ Get(ret.value, "count") = Num(3)
              /\ Get(ret.value, "total") = Num(50)
              /\ Get(ret.value, "hasMore") = Bool(TRUE)
              /\ Get(ret.value, "nextPage") = Num(3)

\* Scenario B: three items, a total of 50 and a next link to page 3.
C18_Witness ==
    /\ Applied("parsePaginatedResponse")
    /\ Get(arg[1], arg[2]) = Arr(<<Item(1), Item(2), Item(3)>>)
    /\ Get(arg[1], "meta") = Obj(<<"total">>, [total |-> Num(50)])
    /\ NextOf(arg[1]) = Str(LinkPage3)
    /\ ~ret.threw
    /\ Get(ret.value, "items") = Arr(<<Item(1), Item(2), Item(3)>>)
    /\ Get(ret.value, "count") = Num(3)
    /\ Get(ret.value, "nextPage") = Num(3)

\* The positions of a token in a query string.
Positions(query, token) == {j \in 1..Len(query) : query[j] = token}

\* The entries of a parameter map that buildQueryString is to keep.
Kept(params) ==
    {i \in 1..Len(params) :
        params[i][2] # Undef /\ params[i][2] # Null /\ params[i][2] # Str("")}

\* C19: buildQueryString drops exactly the keys whose value is undefined,
\* null or the empty string and keeps every other key once with its
\* stringified value (false and 0 are kept); the result is "" when no key
\* survives and "?" followed by the surviving pairs otherwise.
C19_QueryKeepsDefined ==
    Applied("buildQueryString") =>
        LET params == arg[1]
            query == ret.value
        IN  /\ \A i \in 1..Len(params) :
                  IF i \in Kept(params)
                  THEN /\ Cardinality(Positions(query, params[i][1])) = 1
                       /\ \A j \in Positions(query, params[i][1]) :
                            /\ j + 2 <= Len(query)
                            /\ query[j + 1] = "="
                            /\ query[j + 2] = FormEncode(String(params[i][2]))
                  ELSE Positions(query, params[i][1]) = {}
            /\ Kept(params) = {} <=> query = << >>
            /\ Kept(params) # {} =>
                  /\ query[1] = "?"
                  /\ Len(query) = 4 * Cardinality(Kept(params))
                  /\ Cardinality(Positions(query, "?")) = 1
                  /\ Cardinality(Positions(query, "&")) = Cardinality(Kept(params)) - 1

\* { replace: false, skip_drain: undefined }, as deleteKubernetesNode passes
\* it, kept its false.
C19_Witness ==
    /\ Applied("buildQueryString")
    /\ Len(arg[1]) = 2
    /\ arg[1][1] = <<"replace", Bool(FALSE)>>
    /\ arg[1][2][2] = Undef
    /\ ret.value = <<"?", "replace", "=", "false">>

\* The value as JSON carries it: members that are undefined left out,
\* undefined elements and NaN as null.
RECURSIVE JsonOf(_)
JsonOf(value) ==
    CASE value.t = "array" ->
            Arr([i \in 1..Len(value.v) |->
                    IF value.v[i] = Undef THEN Null ELSE JsonOf(value.v[i])])
      [] value.t = "object" ->
            LET kept == SelectSeq(value.keys, LAMBDA k : value.f[k] # Undef)
            IN  Obj(kept, [k \in {kept[i] : i \in 1..Len(kept)} |-> JsonOf(value.f[k])])
      [] value.t = "NaN" -> Null
      [] OTHER -> value

\* C20: in json mode, the mode of every format other than 'markdown',
\* formatResponse succeeds for every result value: one text block with the
\* indented serialization of exactly that value, whatever the tag.
C20_JsonModeSerializes ==
    (Applied("formatResponse") /\ arg[2] # "markdown" /\ arg[1] # Undef) =>
        /\ ~ret.threw
        /\ DOMAIN ret.value = {"content"}
        /\ Len(ret.value.content) = 1
        /\ ret.value.content[1].type = "text"
        /\ ret.value.content[1].text = JSONstringify(arg[1])
        /\ ret.value.content[1].text # << >>
        /\ \A d \in DataValues :
              JSONstringify(d) = ret.value.content[1].text => JsonOf(d) = JsonOf(arg[1])
        /\ \A t \in EntityTypes : formatResponse(arg[1], arg[2], t) = ret

\* A page was formatted with a format that is neither 'json' nor 'markdown'
\* and came out as indented JSON.
C20_Witness ==
    /\ Applied("formatResponse")
    /\ arg[2] = "text"
    /\ isPaginatedResponse(arg[1])
    /\ Len(Get(arg[1], "items").v) = 2
    /\ ~ret.threw
    /\ ret.value.content[1].text[1] = "{"
    /\ ret.value.content[1].text[2] = "  \"items\": ["
    /\ ret.value.content[1].text[3] = "    {"

-----------------------------------------------------------------------------
(* Properties of the markdown rendering, over SpecPure.                    *)

\* formatResponse was applied in markdown mode.
Rendered == Applied("formatResponse") /\ arg[2] = "markdown"

Lines(text) == {text[i] : i \in 1..Len(text)}

\* The lines a table renderer, bespoke or generic, emits for no items: the
\* two header lines of each bespoke table and the generic table's notice.
TableLines == UNION {Lines(PageTable(t, << >>).value) : t \in EntityTypes}

EmptyPage(data) == isPaginatedResponse(data) /\ Get(data, "items").v = << >>

\* C21: markdown rendering of a page with zero items, whatever its tag,
\* succeeds and ends with the "no items" notice right after the head of the
\* page; no line of any table renderer, bespoke or generic, is in the text.
C21_EmptyPageNotice ==
    (Rendered /\ EmptyPage(arg[1])) =>
        /\ ~ret.threw
        /\ LET text == ret.value.content[1].text
           IN  /\ text[Len(text)] = "_No items found._"
               /\ Len(text) = IF Falsy(Get(arg[1], "hasMore")) THEN 5 ELSE 6
               /\ Lines(text) \cap TableLines = {}

\* An empty page was rendered under a tag that has no table of its own.
C21_Witness ==
    /\ Rendered
    /\ EmptyPage(arg[1])
    /\ arg[3] = "node_pools"
    /\ ~ret.threw
    /\ ret.value.content[1].text[5] = "_No items found._"

\* The list a generic table is rendered from: a bare array under any tag,
\* or the items of a page whose tag is not registered.
GenericItems ==
    IF arg[1].t = "array" THEN arg[1].v
    ELSE IF isPaginatedResponse(arg[1]) /\ arg[3] \notin RegisteredTags
    THEN Get(arg[1], "items").v
    ELSE << >>

\* The columns: at most the first six keys of the first item.
Columns(list) ==
    LET keys == list[1].keys
    IN  [j \in 1..(IF Len(keys) > 6 THEN 6 ELSE Len(keys)) |-> keys[j]]

\* The cell of an item under a column.
GenericCell(item, k) ==
    IF k \notin DOMAIN item.f \/ item.f[k] \in {Null, Undef} THEN "-"
    ELSE IF item.f[k].t \in {"object", "array"} THEN "[object]"
    ELSE Substring50(String(item.f[k]))

\* C22: the generic table, rendered for a bare array under every tag and for
\* a page whose tag is not registered, has one column per key among the
\* first six of the first item and one row per item with one cell per
\* column: '-' for a null or absent value, '[object]' for a nested object or
\* array, else the string form cut to 50 characters.
C22_GenericTable ==
    (Rendered /\ GenericItems # << >> /\ \A i \in 1..Len(GenericItems) :
                                            GenericItems[i].t = "object") =>
        /\ ~ret.threw
        /\ LET list == GenericItems
               text == ret.value.content[1].text
               first == Len(text) - Len(list) - 1
               cols == Columns(list)
           IN  /\ first >= 1
               /\ arg[1].t = "array" => first = 1
               /\ Len(cols) <= 6
               /\ text[first] = Row(cols)
               /\ text[first + 1] =
                     "|" \o JoinText([j \in 1..Len(cols) |-> "---"], "|") \o "|"
               /\ \A i \in 1..Len(list) :
                     text[first + 1 + i] =
                         Row([j \in 1..Len(cols) |-> GenericCell(list[i], cols[j])])
        /\ arg[1].t = "array" =>
              \A t \in EntityTypes : formatResponse(arg[1], "markdown", t) = ret

\* A bare array was rendered under a registered tag as a generic table: the
\* long text cut, the nested value and the null and absent values replaced.
C22_Witness ==
    /\ Rendered
    /\ arg[1] = GenericList
    /\ arg[3] = "droplets"
    /\ ~ret.threw
    /\ ret.value.content[1].text =
          <<"| id | note | nested | none | on |",
            "|---|---|---|---|---|",
            "| 7 | 01234567890123456789012345678901234567890123456789 | [object] | - | true |",
            "| 8 | - | - | - | - |">>

\* The sequences of seqs one after another.
RECURSIVE Concat(_)
Concat(seqs) == IF seqs = << >> THEN << >> ELSE seqs[1] \o Concat(Tail(seqs))

\* The lines of one field of a single object.
FieldEntry(key, value) ==
    IF value.t \in {"object", "array"}
    THEN <<"**" \o formatKey(key) \o ":**", Fence \o "json">>
            \o JSONstringify(value) \o <<Fence>>
    ELSE <<"**" \o formatKey(key) \o ":** " \o String(value)>>

\* C23: markdown rendering of a single object, neither an array nor a page,
\* is a heading with the singularized tag, an empty line, and one entry per
\* field in field order, the fields that are null or undefined left out: a
\* fenced pretty-printed JSON block for a nested object or array, a
\* '**Key:** value' line for any other field.  A value that is not an object
\* is rendered as its string form alone.
C23_SingleObject ==
    /\ (Rendered /\ arg[1].t = "object" /\ ~isPaginatedResponse(arg[1])) =>
          /\ ~ret.threw
          /\ LET o == arg[1]
                 kept == SelectSeq(o.keys, LAMBDA k : o.f[k] \notin {Null, Undef})
             IN  ret.value.content[1].text =
                    <<"## " \o capitalize(Singular(arg[3])), "">>
                        \o Concat([i \in 1..Len(kept) |-> FieldEntry(kept[i], o.f[kept[i]])])
    /\ (Rendered /\ arg[1].t \notin {"object", "array"}) =>
          /\ ~ret.threw
          /\ ret.value.content[1].text = <<String(arg[1])>>
          /\ arg[1] = Str("ok") => ret.value.content[1].text = <<"ok">>
          /\ arg[1] = Num(3) => ret.value.content[1].text = <<"3">>
          /\ arg[1] = Bool(TRUE) => ret.value.content[1].text = <<"true">>

\* A droplet with nested networks and region and with null tags was rendered
\* under the tag 'droplets': the heading is singular, the nested fields are
\* fenced JSON, the null field has no line.
C23_Witness ==
    /\ Rendered
    /\ arg[1] = DropletEntity
    /\ arg[3] = "droplets"
    /\ ~ret.threw
    /\ LET text == ret.value.content[1].text
       IN  /\ SubSeq(text, 1, 7) =
                <<"## Droplet", "", "**Id:** 1", "**Name:** web", "**Status:** active",
                  "**Networks:**", "~~~json">>
           /\ text[Len(text)] = "**Size Slug:** s-1vcpu-1gb"
           /\ "**Region:**" \in Lines(text)
           /\ "**Tags:** null" \notin Lines(text)
           /\ "**Tags:**" \notin Lines(text)

\* The has-more indicator carrying a next page value.
MoreLine(nextPage) == "**More available:** Yes (next page: " \o String(nextPage) \o ")"

\* Every has-more indicator of the pages handed to the formatter.
MoreLines ==
    {MoreLine(Get(d, "nextPage")) : d \in {v \in DataValues : isPaginatedResponse(v)}}

\* A page whose items are all objects.
PageOfObjects(data) ==
    /\ isPaginatedResponse(data)
    /\ \A i \in 1..Len(Get(data, "items").v) : Get(data, "items").v[i].t = "object"

\* C24: markdown rendering of a page emits, in this order, a heading, a
\* summary line (total and showing-count when total is known, showing-count
\* alone when it is not), a has-more indicator exactly when hasMore is true,
\* with the next page number when nextPage is one, and then the "no items"
\* notice or a table; without hasMore the text holds no has-more indicator.
C24_PageLayout ==
    (Rendered /\ PageOfObjects(arg[1])) =>
        /\ ~ret.threw
        /\ LET page == arg[1]
               text == ret.value.content[1].text
               list == Get(page, "items").v
               more == Get(page, "hasMore") = Bool(TRUE)
               body == IF more THEN 6 ELSE 5
           IN  /\ Len(text) >= body
               /\ text[1] = "## " \o capitalize(arg[3])
               /\ text[2] = ""
               /\ Get(page, "total").t = "number" =>
                     text[3] = "**Total:** " \o ToString(Get(page, "total").n)
                                  \o " | **Showing:** " \o ToString(Get(page, "count").n)
               /\ Get(page, "total") = Undef =>
                     text[3] = "**Showing:** " \o ToString(Get(page, "count").n)
               /\ more => text[4] \in MoreLines /\ text[5] = ""
               /\ (more /\ Get(page, "nextPage").t = "number") =>
                     text[4] = "**More available:** Yes (next page: "
                                  \o ToString(Get(page, "nextPage").n) \o ")"
               /\ ~more => text[4] = "" /\ Lines(text) \cap MoreLines = {}
               /\ list = << >> => SubSeq(text, body, Len(text)) = <<"_No items found._">>
               /\ list # << >> =>
                     /\ SubSeq(text, body, Len(text)) = PageTable(arg[3], list).value
                     /\ Len(text) = body + 1 + Len(list)

\* A page of two droplets out of fifty with a next link to page 3 was
\* rendered: heading, summary with the total, indicator with the page
\* number, then the table.
C24_Witness ==
    /\ Rendered
    /\ PageOfObjects(arg[1])
    /\ arg[3] = "droplets"
    /\ ~ret.threw
    /\ Len(Get(arg[1], "items").v) = 2
    /\ SubSeq(ret.value.content[1].text, 1, 7) =
          <<"## Droplets", "", "**Total:** 50 | **Showing:** 2",
            "**More available:** Yes (next page: 3)", "",
            "| ID | Name | Status | IP | Region | Size |", "|---|---|---|---|---|---|">>

ColumnFields(entityType) ==
    CASE entityType = "droplets" ->
            <<"id", "name", "status", "networks", "region", "size_slug">>
      [] entityType = "volumes" ->
            <<"id", "name", "size_gigabytes", "region", "droplet_ids">>
      [] entityType = "firewalls" ->
            <<"id", "name", "status", "droplet_ids", "inbound_rules", "outbound_rules">>
      [] entityType = "load_balancers" ->
            <<"id", "name", "ip", "status", "region", "droplet_ids">>
      [] entityType = "vpcs" -> <<"id", "name", "region", "ip_range", "default">>
      [] entityType = "kubernetes_clusters" ->
            <<"id", "name", "region", "version", "status", "node_pools">>
      [] entityType = "databases" ->
            <<"id", "name", "engine", "version", "size", "region", "status">>
      [] entityType = "apps" -> <<"id", "spec", "region", "tier_slug", "live_url">>

\* A page of at least one item, all objects, rendered under a registered tag.
RenderedTable ==
    /\ Rendered
    /\ arg[3] \in RegisteredTags
    /\ PageOfObjects(arg[1])
    /\ Get(arg[1], "items").v # << >>

\* The rendering of a table returned and its rows are the rows of the items.
TableCompletes ==
    /\ ~ret.threw
    /\ LET list == Get(arg[1], "items").v
           text == ret.value.content[1].text
       IN  \A i \in 1..Len(list) :
              text[Len(text) - Len(list) + i] = Row(TableCells(arg[3], list[i]))

\* C26: for every registered table and every item object lacking any subset
\* of its fields, markdown rendering completes without an exception and the
\* cell of each absent field is the placeholder dash or zero.
C26_AbsentFieldsPlaceholder ==
    RenderedTable =>
        /\ TableCompletes
        /\ LET list == Get(arg[1], "items").v
               cols == ColumnFields(arg[3])
           IN  \A i \in 1..Len(list) : \A j \in 1..Len(cols) :
                  cols[j] \notin DOMAIN list[i].f =>
                      TableCells(arg[3], list[i])[j] \in {"-", "0"}

-----------------------------------------------------------------------------
(* Properties of the outbound call, over SpecPure.                         *)

\* The header value of an inbound request when it is present and not empty.
HeaderValue(h, default) == IF h # None /\ h[1] # "" THEN h[1] ELSE default

\* C27: every call request() makes targets exactly baseUrl + path, baseUrl
\* being the X-DigitalOcean-Base-URL header when present and non-empty and
\* https://api.digitalocean.com/v2 otherwise, and carries Authorization:
\* Bearer <token> and Content-Type: application/json; a header the caller
\* supplies replaces the default of the same field and is sent beside the
\* default fields it does not name, which stay as they are.
C27_OutboundCall ==
    (Applied("request") /\ ~ret.threw) =>
        LET supplied == IF "headers" \in DOMAIN arg[3] THEN arg[3].headers ELSE << >>
            sent == ret.value.init.headers
            defaults ==
                ("Authorization" :> "Bearer " \o HeaderValue(arg[1].token, ""))
                    @@ ("Content-Type" :> "application/json")
        IN  /\ ret.value.url =
                  HeaderValue(arg[1].baseUrl, "https://api.digitalocean.com/v2") \o arg[2]
            /\ HeaderValue(arg[1].token, "") # ""
            /\ DOMAIN sent = DOMAIN defaults \cup DOMAIN supplied
            /\ \A k \in DOMAIN supplied : sent[k] = supplied[k]
            /\ \A k \in DOMAIN defaults \ DOMAIN supplied : sent[k] = defaults[k]
            /\ \A k \in DOMAIN arg[3] \ {"headers"} : ret.value.init[k] = arg[3][k]
            /\ DOMAIN ret.value.init = DOMAIN arg[3] \cup {"headers"}

\* A POST was issued for a tenant with a base URL of its own by a caller
\* that supplied a Content-Type: the call goes to that base URL with the
\* caller's Content-Type and the tenant's bearer token.
C27_Witness ==
    /\ Applied("request")
    /\ ~ret.threw
    /\ arg[1].baseUrl = Some("http://mock.test/v2")
    /\ arg[3] = [method |-> "POST", body |-> "{}",
                 headers |-> "Content-Type" :> "text/plain"]
    /\ ret.value.url = "http://mock.test/v2/account"
    /\ ret.value.init.headers["Content-Type"] = "text/plain"
    /\ ret.value.init.headers["Authorization"] = "Bearer tokA"
    /\ ret.value.init.method = "POST"

-----------------------------------------------------------------------------
(* Properties of the client called repeatedly, over SpecClient.            *)

\* What operation o yields on a client built from creds when fetch, if it is
\* reached, ends as fetched (a response, or none when it rejects).
OutcomeOf(creds, o, fetched) ==
    IF getAuthHeadersThrows(createDigitalOceanClient(creds))
    THEN OpFailure(o, AuthenticationError(
             "No token provided. Include X-DigitalOcean-Token header."))
    ELSE IF fetched = None THEN OpFailure(o, TypeError("fetch failed"))
    ELSE OpResult(o, fetched[1])

\* C28: no operation changes the client: whatever operations were called on
\* it and however they ended, its token and baseUrl are those it was built
\* with by createDigitalOceanClient, and the outcome of a completed call is
\* the outcome of that operation for those credentials and that HTTP
\* response alone, whatever calls came before it.
C28_ClientStateless ==
    client[1] # None =>
        /\ client[1][1].credentials = credentials[1][1]
        /\ client[1][1].baseUrl = createDigitalOceanClient(credentials[1][1]).baseUrl
        /\ (pc[1] = "done" /\ outcome[1] # None) =>
              outcome[1][1] = OutcomeOf(credentials[1][1], op[1][1], response[1])

\* A second call on the same client succeeded after the first one was made.
C28_Witness ==
    /\ invoked[1] = 2
    /\ Len(outbound[1]) = 2
    /\ pc[1] = "done"
    /\ outcome[1] # None
    /\ ~outcome[1][1].threw
    /\ client[1][1].credentials.token = "tokA"

-----------------------------------------------------------------------------
(* Properties of the paging schema, over SpecPure.                         *)

\* v is an integer, not below lo.
IntegerFrom(v, lo) == v.t = "number" /\ DOMAIN v = {"t", "n"} /\ v.n >= lo

\* The query of an endpoint carries key=value.
Carries(endpoint, key, value) ==
    \E i \in 1..(Len(endpoint) - 2) :
        endpoint[i] = key /\ endpoint[i + 1] = "=" /\ endpoint[i + 2] = value

\* C29: digitalocean_list_droplets, like every list tool with the same paging
\* schema, accepts per_page only as an integer in 1..200 and page only as an
\* integer >= 1, each of them optional; any other value is rejected before
\* the handler runs and before any HTTP call; an omitted per_page defaults to
\* 20, so that the outbound request carries per_page=20.
C29_PagingSchema ==
    Applied("callListDroplets") =>
        LET per_page == arg[2].per_page
            page == arg[2].page
        IN  /\ ret.handled <=>
                  /\ per_page = Undef \/ (IntegerFrom(per_page, 1) /\ per_page.n <= 200)
                  /\ page = Undef \/ IntegerFrom(page, 1)
            /\ ~ret.handled => DOMAIN ret = {"handled"}
            /\ (ret.handled /\ per_page # Undef) =>
                  Carries(ret.endpoint, "per_page", ToString(per_page.n))
            /\ (ret.handled /\ per_page = Undef) =>
                  Carries(ret.endpoint, "per_page", "20")

-----------------------------------------------------------------------------
(* Properties of the worker's routing, over SpecRouting.                   *)

\* The request reached nothing past the router: no credentials were parsed,
\* no server or client was built, no tool ran and no outbound call was made.
RouterOnly(r) ==
    /\ credentials[r] = None
    /\ server[r] = None
    /\ client[r] = None
    /\ tool[r] = None
    /\ invoked[r] = 0
    /\ outbound[r] = << >>

\* The request was answered at once with this status and kind of response.
AnsweredWith(r, status, kind) ==
    /\ pc[r] = "done"
    /\ workerResp[r] = Some([status |-> status, kind |-> kind])

\* C30: the worker answers every request through exactly one branch, tried
\* in this order: /health whatever the method and the headers (status ok,
\* credentials neither parsed nor validated); POST /mcp (credentials parsed
\* and validated, 401 without a token, else the MCP handler); /sse (501);
\* otherwise the informational response.  A request to /mcp that is not a
\* POST gets the informational response and reaches neither the credential
\* check nor a client nor a tool.
C30_Routing ==
    inbound[1] # None =>
        LET q == inbound[1][1]
        IN  CASE q.pathname = "/health" ->
                    AnsweredWith(1, 200, "health") /\ RouterOnly(1)
              [] q.pathname # "/health" /\ q.pathname = "/mcp" /\ q.method = "POST" ->
                    /\ credentials[1] # None
                    /\ IF q.token = None \/ q.token = Some("")
                       THEN /\ AnsweredWith(1, 401, "Unauthorized")
                            /\ server[1] = None /\ client[1] = None /\ tool[1] = None
                            /\ outbound[1] = << >>
                       ELSE /\ server[1] # None /\ client[1] # None
                            /\ workerResp[1] # None =>
                                  workerResp[1] = Some([status |-> 200, kind |-> "mcp"])
              [] q.pathname = "/sse" ->
                    AnsweredWith(1, 501, "sse") /\ RouterOnly(1)
              [] OTHER ->
                    AnsweredWith(1, 200, "info") /\ RouterOnly(1)

\* A GET to /mcp carrying a valid token got the informational response.
C30_Witness ==
    /\ inbound[1] # None
    /\ inbound[1][1].pathname = "/mcp"
    /\ inbound[1][1].method = "GET"
    /\ inbound[1][1].token = Some("tokA")
    /\ AnsweredWith(1, 200, "info")
    /\ RouterOnly(1)

=============================================================================
